---------------------------- MODULE Spec2Model ----------------------------
(***************************************************************************)
(* Model of the document-endorsement pipeline of IndorsementStuff:         *)
(*   - the overlay compositor  (packages/EndorserKit/attach_endorsement_   *)
(*     to_pdf.py),                                                         *)
(*   - the signer              (packages/EndorserKit/ucc3_endorsements.py),*)
(*   - the payload preparer    (packages/EndorserKit/endorsement_engine.py)*)
(*   - the endorse_bill route  (backend/routes/endorsement.py),            *)
(*   - the upload endpoints    (backend/main.py, backend/routes/           *)
(*     documents.py).                                                      *)
(***************************************************************************)
EXTENDS Integers, Sequences, FiniteSets, TLC

(***************************************************************************)
(* Bounds of the model.                                                    *)
(***************************************************************************)
\* largest page count of a source PDF
MaxPages == 3
\* how often sign_endorsement is called on one endorsement object
MaxSignCalls == 2

\* the preparer and the signer are called at most this often on one bill
MaxPrepCalls == 2

\* the clock stops on this day of the month
MaxDay == 3

\* the value Python's None is modelled by
None == "None"

(***************************************************************************)
(* PDF documents.  A page is a record: doc identifies the upload the page  *)
(* came from, src is its 1-based position in that upload, overlays is the  *)
(* sequence of overlays merged onto it (each the colour its text is drawn  *)
(* in).  A document is a sequence of pages.                                *)
(***************************************************************************)
Doc(d, n) == [i \in 1..n |-> [doc |-> d, src |-> i, overlays |-> <<>>]]

\* ink colours of the InkColor enum
InkColors == {"black", "blue", "red"}

\* attach_endorsement_to_pdf.py:18-24: the colour chosen from ink_color
text_color(ink) ==
    IF ink = "blue" THEN "blue" ELSE IF ink = "red" THEN "red" ELSE "black"

\* attach_endorsement_to_pdf.py:33-55: the overlay page that is drawn.  The
\* text colour is set at line 40, after the background box, to black; the
\* colour computed from ink_color is never given to the canvas.
overlay(ink) == [box |-> "yellow", text |-> "black"]

\* Python's seq[i] for an int i: 0-based, negative i counts from the end,
\* IndexError outside -len..len-1.
PyIndexOk(s, i) == -Len(s) <= i /\ i < Len(s)
PyPos(s, i) == IF i >= 0 THEN i + 1 ELSE Len(s) + i + 1

\* page.merge_page(overlay_page): the page object is changed in place
merge_page(p, ov) == [p EXCEPT !.overlays = Append(@, ov)]

\* the pages after "for i, p in enumerate(pages): if i != page_index: add"
\* (i runs over 0..len-1, so a negative page_index excludes no page)
RECURSIVE RemainingPages(_, _, _)
RemainingPages(pages, idx, i) ==
    IF i >= Len(pages) THEN <<>>
    ELSE (IF i # idx THEN <<pages[i + 1]>> ELSE <<>>)
         \o RemainingPages(pages, idx, i + 1)

\* the guard of line 70
PageInRange(pages, idx) == idx < Len(pages)

\* the page chosen at line 71, merged at line 75 (held by the reader too)
MergedPages(pages, ink, idx) ==
    [pages EXCEPT ![PyPos(pages, idx)] = merge_page(@, overlay(ink))]

\* lines 76-81: the merged page first, then every page whose index differs
WriterPages(pages, ink, idx) ==
    LET merged == MergedPages(pages, ink, idx)
    IN  <<merged[PyPos(pages, idx)]>> \o RemainingPages(merged, idx, 0)

\* a compositor that clamps an index past the end to the last page instead
\* of raising
attach_clamping(pages, ink, idx) ==
    LET i == IF idx >= Len(pages) THEN Len(pages) - 1 ELSE idx
    IN  IF PyIndexOk(pages, i)
        THEN [raised |-> None, written |-> TRUE,
              out |-> WriterPages(pages, ink, i)]
        ELSE [raised |-> "IndexError", written |-> FALSE, out |-> <<>>]

(***************************************************************************)
(* attach_endorsement_to_pdf_function(original, data, output, ink, index): *)
(* the result is what it raised (None when it returned) and the pages it   *)
(* wrote to output_pdf_path (written = FALSE when no file was opened).     *)
(***************************************************************************)
attach_endorsement_to_pdf_function(pages, ink, idx) ==
    IF PageInRange(pages, idx)
    THEN IF PyIndexOk(pages, idx)
         THEN [raised |-> None, written |-> TRUE,
               out |-> WriterPages(pages, ink, idx)]
         ELSE [raised |-> "IndexError", written |-> FALSE, out |-> <<>>]
    ELSE [raised |-> "Exception", written |-> FALSE, out |-> <<>>]


(***************************************************************************)
(* Strings are sequences of tokens, so that splitext, replace and          *)
(* endswith are computed and not assumed: a file name is                   *)
(* <<"bill", ".pdf">>, a trigger is <<"Accepted", " ", "for", ...>>.       *)
(***************************************************************************)
ExtTokens == {".pdf", ".PDF", ".txt"}

\* os.path.splitext(name)[1]: the extension, or the empty string
splitext_ext(name) ==
    IF Len(name) > 1 /\ name[Len(name)] \in ExtTokens
    THEN <<name[Len(name)]>> ELSE <<>>

\* s.replace(old, ""): every occurrence of the token is removed
replace_token(s, old) == SelectSeq(s, LAMBDA t : t # old)

\* path.lower().endswith(".pdf")
lower_endswith_pdf(name) ==
    Len(name) > 0 /\ name[Len(name)] \in {".pdf", ".PDF"}

\* str(uuid.uuid4()): the n-th identifier drawn; no two draws are equal
uuid4(n) == <<ToString(n)>>

\* dict.get(key, default)
Get(d, key, default) == IF key \in DOMAIN d THEN d[key] ELSE default

\* a mapping with one entry added or replaced, and with one entry removed
Put(f, k, v) == [x \in (DOMAIN f) \cup {k} |-> IF x = k THEN v ELSE f[x]]
Remove(f, k) == [x \in (DOMAIN f) \ {k} |-> f[x]]

\* the elements of a sequence
Range(s) == {s[i] : i \in DOMAIN s}

(***************************************************************************)
(* The signing key: PRIVATE_KEY_PEM and the file private_key.pem.  A value *)
(* is None (unset, no file), "" (empty), "BAD" (not a PEM key) or a key.   *)
(***************************************************************************)
Keys == {"K1", "K2"}
PemValues == {None, "", "BAD"} \cup Keys

\* truth value of an optional string
Truthy(v) == v # None /\ v # ""

\* a key loader that falls back to a built-in key when none is configured
get_private_key_fallback(env, file) ==
    IF Truthy(env) THEN env
    ELSE IF file # None THEN file
    ELSE "K1"

\* routes/endorsement.py:30-40
get_private_key(env, file) ==
    IF Truthy(env) THEN env
    ELSE IF file # None THEN file
    ELSE None

(***************************************************************************)
(* Endorsement Preparer and Signer.  A dict is a sequence of <<key,value>> *)
(* pairs in insertion order; str(dict) lists them in that order.           *)
(***************************************************************************)
DictKeys(d) == {d[i][1] : i \in DOMAIN d}
DictGet(d, key, default) ==
    IF key \in DictKeys(d)
    THEN d[CHOOSE i \in DOMAIN d : d[i][1] = key][2]
    ELSE default
\* d[key] = value: replaced in place when present, else added at the end
DictSet(d, key, value) ==
    IF key \in DictKeys(d)
    THEN [i \in DOMAIN d |-> IF d[i][1] = key THEN <<key, value>> ELSE d[i]]
    ELSE Append(d, <<key, value>>)

\* str(endorsement_data).encode('utf-8'): keys and values, in order
RECURSIVE str_bytes(_)
str_bytes(d) ==
    IF d = <<>> THEN <<>>
    ELSE <<d[1][1], d[1][2]>> \o str_bytes(Tail(d))

\* a preparer that copies only the fields the bill record has
prepare_present_fields(bill_data, endorsement_text, today) ==
    SelectSeq(<< <<"document_type", Get(bill_data, "document_type", None)>>,
                 <<"bill_number", Get(bill_data, "bill_number", None)>>,
                 <<"customer_name", Get(bill_data, "customer_name", None)>>,
                 <<"total_amount", Get(bill_data, "total_amount", None)>>,
                 <<"currency", Get(bill_data, "currency", None)>> >>,
              LAMBDA e : e[2] # None)
    \o << <<"endorsement_date", today>>,
          <<"endorser_id", "WEB-UTIL-001">>,
          <<"endorsement_text", endorsement_text>> >>

\* endorsement_engine.py:21-31 (today is datetime.now() formatted)
prepare_endorsement_for_signing(bill_data, endorsement_text, today) ==
    << <<"document_type", Get(bill_data, "document_type", "Unknown")>>,
       <<"bill_number", Get(bill_data, "bill_number", "N/A")>>,
       <<"customer_name", Get(bill_data, "customer_name", "N/A")>>,
       <<"total_amount", Get(bill_data, "total_amount", "N/A")>>,
       <<"currency", Get(bill_data, "currency", "N/A")>>,
       <<"endorsement_date", today>>,
       <<"endorser_id", "WEB-UTIL-001">>,
       <<"endorsement_text", endorsement_text>> >>

\* private_key.sign(bytes, PKCS1v15, SHA256): a deterministic function of
\* the key and the bytes, different for different keys or bytes
rsa_sign(key, bytes) == [by |-> key, over |-> bytes]
\* base64.b64encode(signature).decode('utf-8')
b64encode(sig) == [b64 |-> sig]

\* ucc3_endorsements.py:26-41: the key that signs, or the error raised
LoadedKey(private_key_pem, private_key_object) ==
    IF Truthy(private_key_pem)
    THEN IF private_key_pem \in Keys
         THEN [raised |-> None, key |-> private_key_pem]
         ELSE [raised |-> "Exception", key |-> None]
    ELSE IF Truthy(private_key_object)
         THEN IF private_key_object \in Keys
              THEN [raised |-> None, key |-> private_key_object]
              ELSE [raised |-> "Exception", key |-> None]
         ELSE [raised |-> "ValueError", key |-> None]

\* a signer that changes a payload field before it signs
SignatureOfTouched(endorsement_data, key) ==
    b64encode(rsa_sign(key, str_bytes(DictSet(endorsement_data,
                                              "endorser_id", "N/A"))))

\* ucc3_endorsements.py:43-65: what is stored under 'signature'
SignatureOf(endorsement_data, key) ==
    b64encode(rsa_sign(key, str_bytes(endorsement_data)))

\* ucc3_endorsements.py:7-65: raised is None when it returned; data is the
\* endorsement_data object afterwards (changed in place when it returned)
sign_endorsement(endorsement_data, endorser_name, private_key_pem, private_key_object) ==
    LET k == LoadedKey(private_key_pem, private_key_object)
    IN  IF k.raised # None
        THEN [raised |-> k.raised, data |-> endorsement_data]
        ELSE [raised |-> None,
              data |-> DictSet(endorsement_data, "signature",
                               SignatureOf(endorsement_data, k.key))]

(***************************************************************************)
(* State.                                                                  *)
(***************************************************************************)
VARIABLES
    attach_call,   \* a direct call of the compositor: arguments and result
    signer,        \* direct calls of the signer on one endorsement object
    environ,       \* os.environ.get("PRIVATE_KEY_PEM")
    key_file,      \* content of private_key.pem, None when there is no file
    overlay_yaml,  \* config/sovereign_overlay.yaml as load_yaml_config reads it
    disk,          \* the files of the upload directories: path -> content
    uuids,         \* number of uuid4() calls so far
    rq,            \* per request: the handler's position and local variables
    prep,          \* direct calls of the preparer and the signer on one bill
    parsed,        \* a direct call of an extractor on one text
    detector,      \* a direct call of detect_contradictions on one text
    auth,          \* users.json and the create_user calls under way
    dispatch,      \* dispatch_registry.json and the calls that rewrote it
    up,            \* per request to /upload or /upload-document: its locals
    sign_calls     \* history: the sign_endorsement calls made by endorse_bill
                   \* (req: the request, key: the key passed, input: the
                   \* request's input, cfg: <<environ, key_file>> when the
                   \* request started, changed: whether <<environ, key_file>>
                   \* was another at the call)

vars == <<attach_call, signer, environ, key_file, overlay_yaml, disk, uuids, rq,
          up, prep, parsed, detector, auth, dispatch, sign_calls>>

\* the endorse_bill requests of a run
Requests == {1, 2}

\* the requests to /upload and /upload-document of a run
Uploaders == {3, 4}

(***************************************************************************)
(* Errors and responses.                                                   *)
(***************************************************************************)
\* error_handler.py:27-40
APIError(status_code, error_code, message) ==
    [status_code |-> status_code, error_code |-> error_code,
     message |-> message]
NoError == APIError(0, "", "")

\* error_handler.py:111-126: the JSON body carries the error's status
api_exception_handler(exc) ==
    [status_code |-> exc.status_code, error_code |-> exc.error_code,
     message |-> exc.message, endorsed_files |-> <<>>, endorsements |-> <<>>]

\* a response that reports the last endorsed file and endorsement only
EndorsementResponseLastOnly(message, endorsed_files, endorsements) ==
    [status_code |-> 200, error_code |-> "", message |-> message,
     endorsed_files |-> IF endorsed_files = <<>> THEN <<>>
                        ELSE <<endorsed_files[Len(endorsed_files)]>>,
     endorsements |-> IF endorsements = <<>> THEN <<>>
                      ELSE <<endorsements[Len(endorsements)]>>]

\* models.py:87-91 EndorsementResponse, answered with status 200
EndorsementResponse(message, endorsed_files, endorsements) ==
    [status_code |-> 200, error_code |-> "", message |-> message,
     endorsed_files |-> endorsed_files, endorsements |-> endorsements]

NoResponse ==
    [status_code |-> 0, error_code |-> "", message |-> "",
     endorsed_files |-> <<>>, endorsements |-> <<>>]

(***************************************************************************)
(* Request input: the uploaded file and the form fields.                   *)
(*   file: FALSE when no file object arrives, size in bytes, content_type, *)
(*   filename (tokens, <<>> when empty), text: what the PDF's text holds,  *)
(*   pages: its page count.                                                *)
(***************************************************************************)
MB == 1024 * 1024

\* what a PDF upload may hold: "corrupt" is not a readable PDF, "notext"
\* has no text layer, "other" has text without a bill number, "bill" and
\* "bill_comma" have "Account Number: 12345" and an amount due of
\* "$45.00" and "$1,200.00"
Texts == {"corrupt", "notext", "other", "bill", "bill_comma"}

GoodUpload(n, text, ink, placement) ==
    [file |-> TRUE, size |-> MB, content_type |-> "application/pdf",
     filename |-> <<"bill", ".pdf">>, text |-> text, pages |-> n,
     ink_color |-> ink, placement |-> placement]

BaseUpload == GoodUpload(1, "bill", "blue", "front")

Inputs ==
    {GoodUpload(n, "bill", "blue", "back") : n \in 1..MaxPages}
    \cup {GoodUpload(1, t, "blue", "front") : t \in Texts}
    \cup {GoodUpload(1, "bill", ink, "front") : ink \in InkColors}
    \cup {[BaseUpload EXCEPT !.file = FALSE],
          [BaseUpload EXCEPT !.size = 10 * MB],
          [BaseUpload EXCEPT !.size = 10 * MB + 1],
          [BaseUpload EXCEPT !.content_type = "text/plain"],
          [BaseUpload EXCEPT !.filename = <<>>],
          [BaseUpload EXCEPT !.filename = <<"bill", ".PDF">>],
          [BaseUpload EXCEPT !.filename = <<"bill", ".txt">>],
          [BaseUpload EXCEPT !.filename = <<"bill">>]}

\* error_handler.py:145-172
validate_file_upload(file, max_size_mb) ==
    IF ~file.file
    THEN APIError(400, "FILE_UPLOAD_ERROR", "No file provided")
    ELSE IF file.size > max_size_mb * 1024 * 1024
    THEN APIError(400, "FILE_UPLOAD_ERROR", "File size must be less than")
    ELSE IF file.content_type \notin {"application/pdf"}
    THEN APIError(400, "FILE_UPLOAD_ERROR", "File type must be one of")
    ELSE NoError

(***************************************************************************)
(* Field extraction as endorse_bill uses it.                               *)
(***************************************************************************)
\* bill_parser.py:71-109 on the text of the upload
parse_bill(text) ==
    CASE text = "bill" ->
           [bill_number |-> "12345", total_amount |-> "45.00",
            currency |-> "USD", customer_name |-> "Valued Customer"]
      [] text = "bill_comma" ->
           [bill_number |-> "12345", total_amount |-> "1,200.00",
            currency |-> "USD", customer_name |-> "Valued Customer"]
      [] OTHER ->
           [currency |-> "N/A", customer_name |-> "Valued Customer"]

\* a source reader that returns whatever record the text gave, with a bill
\* number or without
get_bill_data_unchecked(name, content) ==
    IF ~lower_endswith_pdf(name)
    THEN [error |-> "Unsupported bill source format"]
    ELSE IF content.text = "corrupt"
    THEN [error |-> "Failed to read PDF file"]
    ELSE IF content.text = "notext"
    THEN [error |-> "OCR failed"]
    ELSE parse_bill(content.text)

\* bill_parser.py:19-49: a record, or a dict with the key "error"
get_bill_data_from_source(name, content) ==
    IF ~lower_endswith_pdf(name)
    THEN [error |-> "Unsupported bill source format"]
    ELSE IF content.text = "corrupt"
    THEN [error |-> "Failed to read PDF file"]
    ELSE IF content.text = "notext"
    THEN [error |-> "OCR failed"]
    ELSE IF ~Truthy(Get(parse_bill(content.text), "bill_number", None))
    THEN [error |-> "Could not parse bill number from PDF."]
    ELSE parse_bill(content.text)

\* models.py:54-65: BillData(**bill_data) accepts total_amount when it is
\* absent or converts to a float >= 0; "1,200.00" does not convert
FloatStrings == {"45.00"}
BillDataAccepts(bill_data) ==
    "total_amount" \notin DOMAIN bill_data
    \/ bill_data.total_amount \in FloatStrings

(***************************************************************************)
(* Endorsement rules.  A rule is a dict with the optional keys trigger and *)
(* meaning; their values are strings of characters.                        *)
(***************************************************************************)
RuleSpaced == [trigger |-> <<"A", " ", "B">>, meaning |-> <<"m">>]
RulePlain == [trigger |-> <<"A", "B">>]
RuleNoTrigger == [meaning |-> <<"n">>]

\* what load_yaml_config("config/sovereign_overlay.yaml") does: it raises,
\* or returns the dict of the file
OverlayConfigs ==
    {[raises |-> TRUE, config |-> <<>>],
     [raises |-> FALSE, config |-> <<>>],
     [raises |-> FALSE,
      config |-> [sovereign_endorsements |->
                      <<RuleSpaced, RulePlain, RuleNoTrigger>>]]}

\* routes/endorsement.py:174
Trigger(endorsement_type) == Get(endorsement_type, "trigger", <<"Unknown">>)

\* routes/endorsement.py:176
EndorsementText(endorsement_type) ==
    Trigger(endorsement_type) \o <<":", " ">>
    \o Get(endorsement_type, "meaning", <<>>)

\* routes/endorsement.py:113-114
UploadPath(filename) == [dir |-> "uploads", name |-> filename]

\* a handler that writes the endorsed PDF over the upload it read
EndorsedOutputPathInPlace(filename, trigger) == UploadPath(filename)

\* routes/endorsement.py:212-213
EndorsedOutputPath(filename, trigger) ==
    [dir |-> "uploads",
     name |-> <<"endorsed_">> \o replace_token(filename, ".pdf") \o <<"_">>
              \o replace_token(trigger, " ") \o <<".pdf">>]

\* routes/endorsement.py:230
PageIndexFor(placement) == IF placement = "front" THEN 0 ELSE -1

\* a handler that loads the key again for every rule
SigningKeyReloaded(r) == get_private_key(environ, key_file)

\* a handler that lets a form field choose the key
SigningKeyFromForm(r) ==
    IF rq[r].input.ink_color = "red" THEN "K2" ELSE rq[r].private_key_pem

\* routes/endorsement.py:180-184: the key handed to sign_endorsement
SigningKey(r) == rq[r].private_key_pem

\* the date datetime.now().strftime("%Y-%m-%d") gives during a run
Today == "2025-01-01"

(***************************************************************************)
(* The locals of one endorse_bill call.  pc: "new" before the request      *)
(* arrives, "read" at the await of file.read(), "loop" in the loop over    *)
(* the rules, "return" after it, "done" once the response went out.        *)
(* start_cfg remembers the key configuration at the handler's start; after *)
(* "done" filepath and endorsed_files remember what the call used.         *)
(***************************************************************************)
NoInput ==
    [file |-> FALSE, size |-> 0, content_type |-> "", filename |-> <<>>,
     text |-> "", pages |-> 0, ink_color |-> "", placement |-> ""]
NoPath == [dir |-> "", name |-> <<>>]

Locals ==
    [pc |-> "new", input |-> NoInput, start_cfg |-> <<None, None>>,
     private_key_pem |-> None, filename |-> <<>>, filepath |-> NoPath,
     bill_data |-> <<>>, sovereign_endorsements |-> <<>>, k |-> 0,
     endorsed_files |-> <<>>, applied_endorsements |-> <<>>,
     response |-> NoResponse]

\* the call is over: the response is out and the locals are gone
Finished(l, response) ==
    [Locals EXCEPT !.pc = "done", !.start_cfg = l.start_cfg,
                   !.filepath = l.filepath,
                   !.endorsed_files = l.endorsed_files,
                   !.response = response]

\* routes/endorsement.py:250-257: os.remove(filepath), then re-raise
\* (d is the disk when the exception is caught)
OnAPIError(r, d, exc) ==
    /\ disk' = Remove(d, rq[r].filepath)
    /\ rq' = [rq EXCEPT ![r] = Finished(@, api_exception_handler(exc))]

\* routes/endorsement.py:258-270: os.remove(filepath), then a 500
OnException(r, d) ==
    OnAPIError(r, d, APIError(500, "PROCESSING_ERROR",
                              "Unexpected error during bill endorsement"))

(***************************************************************************)
(* endorse_bill, routes/endorsement.py:42-270.  It is a coroutine (async   *)
(* def) with one await, of file.read() at line 117: the event loop runs    *)
(* another request only while this one waits there, so a request that is   *)
(* past its await runs to its response before another one moves.           *)
(***************************************************************************)
Running(q) == rq[q].pc \in {"loop", "return"}
LoopIsFree(r) == \A q \in Requests \ {r} : ~Running(q)

\* lines 81-114: validation, key check, file name; up to the await of
\* file.read().  An APIError raised here is outside the try block.
EndorseBillStart(r) ==
    /\ rq[r].pc = "new"
    /\ LoopIsFree(r)
    /\ \A q \in Requests : q < r => rq[q].pc # "new"
    /\ \E inp \in Inputs :
        LET invalid == validate_file_upload(inp, 10)
            key == get_private_key(environ, key_file)
            started == [rq[r] EXCEPT !.start_cfg = <<environ, key_file>>]
            Raise(exc) ==
                /\ rq' = [rq EXCEPT ![r] =
                            Finished(started, api_exception_handler(exc))]
                /\ UNCHANGED uuids
        IN  IF invalid # NoError
            THEN Raise(invalid)
            ELSE IF ~Truthy(key)
            THEN Raise(APIError(500, "INTERNAL_SERVER_ERROR",
                            "Server is not configured with a private key"))
            ELSE IF inp.filename = <<>>
            THEN Raise(APIError(400, "VALIDATION_ERROR",
                                "File must have a filename"))
            ELSE LET filename == uuid4(uuids + 1)
                                 \o splitext_ext(inp.filename)
                 IN  /\ uuids' = uuids + 1
                     /\ rq' = [rq EXCEPT ![r] =
                                [started EXCEPT
                                   !.pc = "read", !.input = inp,
                                   !.private_key_pem = key,
                                   !.filename = filename,
                                   !.filepath = UploadPath(filename)]]
    /\ UNCHANGED <<prep, parsed, up, attach_call, signer, environ, key_file, overlay_yaml, detector, auth,
                   dispatch, disk,
                   sign_calls>>

\* lines 116-167: the upload is saved, the bill parsed, the rules loaded;
\* with no rules the handler returns here
EndorseBillSave(r) ==
    /\ rq[r].pc = "read"
    /\ LoopIsFree(r)
    /\ LET l == rq[r]
           content == [text |-> l.input.text,
                       pages |-> Doc(r, l.input.pages)]
           saved == Put(disk, l.filepath, content)
           bill_data == get_bill_data_from_source(l.filepath.name,
                                                  saved[l.filepath])
           sovereign_endorsements ==
               Get(overlay_yaml.config, "sovereign_endorsements", <<>>)
       IN  IF "error" \in DOMAIN bill_data
           THEN OnAPIError(r, saved,
                           APIError(400, "PROCESSING_ERROR",
                                    "Failed to parse bill data"))
           ELSE IF overlay_yaml.raises
           THEN OnAPIError(r, saved,
                           APIError(500, "PROCESSING_ERROR",
                               "Failed to load endorsement configuration"))
           ELSE IF sovereign_endorsements = <<>>
           THEN IF BillDataAccepts(bill_data)
                THEN /\ disk' = saved
                     /\ rq' = [rq EXCEPT ![r] = Finished(l,
                          EndorsementResponse(
                            "Bill processed, but no applicable endorsements",
                            <<>>, <<>>))]
                ELSE OnException(r, saved)
           ELSE /\ disk' = saved
                /\ rq' = [rq EXCEPT ![r] =
                            [l EXCEPT !.pc = "loop", !.k = 1,
                               !.bill_data = bill_data,
                               !.sovereign_endorsements =
                                   sovereign_endorsements]]
    /\ UNCHANGED <<prep, parsed, up, attach_call, signer, environ, key_file, overlay_yaml, detector, auth,
                   dispatch, uuids,
                   sign_calls>>

\* lines 173-241: one pass of the loop over the rules (log_remedy at line
\* 209 writes its log and returns)
EndorseBillRule(r) ==
    /\ rq[r].pc = "loop"
    /\ LET l == rq[r]
           endorsement_type == l.sovereign_endorsements[l.k]
           trigger == Trigger(endorsement_type)
           endorsement_text == EndorsementText(endorsement_type)
           endorsement_to_sign ==
               prepare_endorsement_for_signing(l.bill_data,
                                               endorsement_text, Today)
           signed == sign_endorsement(
                         endorsement_to_sign,
                         Get(l.bill_data, "customer_name", "N/A"),
                         SigningKey(r), None)
           signed_endorsement == signed.data
           endorsed_output_path == EndorsedOutputPath(l.filename, trigger)
           attached == attach_endorsement_to_pdf_function(
                           disk[l.filepath].pages, l.input.ink_color,
                           PageIndexFor(l.input.placement))
           endorsement_detail ==
               [endorser_name |->
                    DictGet(signed_endorsement, "endorser_id", "N/A"),
                text |-> endorsement_text,
                signature |-> DictGet(signed_endorsement, "signature", None),
                next_payee |-> "Original Creditor"]
       IN  /\ sign_calls' = sign_calls \cup
                  {[req |-> r, key |-> SigningKey(r), input |-> l.input,
                    cfg |-> l.start_cfg,
                    changed |-> (<<environ, key_file>> # l.start_cfg)]}
           /\ IF signed.raised # None
              THEN OnException(r, disk)
              ELSE IF attached.raised # None
              THEN OnException(r, disk)
              ELSE /\ disk' = Put(disk, endorsed_output_path,
                                  [text |-> disk[l.filepath].text,
                                   pages |-> attached.out])
                   /\ rq' = [rq EXCEPT ![r] =
                        [l EXCEPT
                           !.endorsed_files =
                               Append(@, endorsed_output_path),
                           !.applied_endorsements =
                               Append(@, endorsement_detail),
                           !.k = @ + 1,
                           !.pc = IF l.k = Len(l.sovereign_endorsements)
                                  THEN "return" ELSE "loop"]]
    /\ UNCHANGED <<prep, parsed, up, attach_call, signer, environ, key_file, overlay_yaml, detector, auth,
                   dispatch, uuids>>

\* lines 243-248: the response is built and returned
EndorseBillReturn(r) ==
    /\ rq[r].pc = "return"
    /\ IF BillDataAccepts(rq[r].bill_data)
       THEN /\ rq' = [rq EXCEPT ![r] = Finished(@,
                        EndorsementResponse("Bill endorsed successfully",
                                            rq[r].endorsed_files,
                                            rq[r].applied_endorsements))]
            /\ UNCHANGED disk
       ELSE OnException(r, disk)
    /\ UNCHANGED <<prep, parsed, up, attach_call, signer, environ, key_file, overlay_yaml, detector, auth,
                   dispatch, uuids,
                   sign_calls>>

(***************************************************************************)
(* The key file outside the server.                                        *)
(***************************************************************************)
\* scripts/generate_key.py:7-28: a new key, unless the file exists
generate_private_key ==
    /\ key_file = None
    /\ key_file' = "K1"
    /\ UNCHANGED <<prep, parsed, up, attach_call, signer, environ, overlay_yaml, detector, auth,
                   dispatch, disk, uuids, rq,
                   sign_calls>>

\* private_key.pem is replaced by whoever deploys the server: the
\* generated key gives way to another one
KeyFileReplaced ==
    /\ key_file = "K1"
    /\ key_file' = "K2"
    /\ UNCHANGED <<prep, parsed, up, attach_call, signer, environ, overlay_yaml, detector, auth,
                   dispatch, disk, uuids, rq,
                   sign_calls>>

(***************************************************************************)
(* The two other upload endpoints.  The locals of one request: pc is       *)
(* "new" before it arrives, "saved" in upload_file_endpoint between its    *)
(* write and process_instrument (the handler is a plain def and runs in a  *)
(* worker thread beside other requests), "doc_read" in upload_document at  *)
(* the await of file.read(), "done" once the response went out.  read_doc  *)
(* is the upload whose pages process_instrument read (0: none).            *)
(***************************************************************************)
UpLocals ==
    [pc |-> "new", endpoint |-> "", file |-> NoInput, file_path |-> NoPath,
     read_doc |-> 0, status_code |-> 0]

\* main.py:42
UPLOAD_FOLDER == "/tmp/uploads"

\* the files sent to /upload and /upload-document
UploadInputs ==
    {BaseUpload,
     [BaseUpload EXCEPT !.pages = 0],
     [BaseUpload EXCEPT !.text = "corrupt"],
     [BaseUpload EXCEPT !.filename = <<"my", " ", "bill", ".pdf">>],
     [BaseUpload EXCEPT !.filename = <<"my", "_", "bill", ".pdf">>],
     [BaseUpload EXCEPT !.filename = <<"bill", ".txt">>],
     [BaseUpload EXCEPT !.filename = <<>>]}

\* main.py:138-139
allowed_file(filename) ==
    /\ \E i \in DOMAIN filename : filename[i] \in ExtTokens
    /\ filename[Len(filename)] \in {".pdf", ".PDF"}

\* main.py:238, werkzeug's secure_filename on the names of the model: the
\* name is split at white space and joined with "_"
secure_filename(filename) ==
    [i \in DOMAIN filename |-> IF filename[i] = " " THEN "_" ELSE filename[i]]

\* main.py:208-209
ProcessedPath(file_path) ==
    [dir |-> UPLOAD_FOLDER, name |-> <<"processed_">> \o file_path.name]

\* documents.py:121-124
DocumentPath(file_id, filename) ==
    [dir |-> "uploads", name |-> file_id \o <<"_">> \o filename]

\* the response went out
UpFinished(l, status_code) ==
    [l EXCEPT !.pc = "done", !.status_code = status_code]

\* main.py:231-241 and 250: the checks, then the upload is written under
\* its sanitised client name
UploadFileSave(u) ==
    /\ up[u].pc = "new"
    /\ \A q \in Uploaders : q < u => up[q].pc # "new"
    /\ \E f \in UploadInputs :
        LET l == [up[u] EXCEPT !.endpoint = "/upload", !.file = f]
        IN  IF ~f.file \/ f.filename = <<>> \/ ~allowed_file(f.filename)
            THEN /\ up' = [up EXCEPT ![u] = UpFinished(l, 400)]
                 /\ UNCHANGED disk
            ELSE LET file_path == [dir |-> UPLOAD_FOLDER,
                                   name |-> secure_filename(f.filename)]
                 IN  /\ disk' = Put(disk, file_path,
                                    [text |-> f.text,
                                     pages |-> Doc(u, f.pages)])
                     /\ up' = [up EXCEPT ![u] =
                                 [l EXCEPT !.pc = "saved",
                                           !.file_path = file_path]]
    /\ UNCHANGED <<prep, parsed, attach_call, signer, environ, key_file, overlay_yaml, detector, auth,
                   dispatch, uuids,
                   rq, sign_calls>>

\* main.py:243-248 with process_instrument, main.py:143-222: the file at
\* file_path is read, parsed, stamped on its first page and written to
\* processed_<name>; process_instrument returns that path, a str, which
\* line 243 unpacks into two names: a ValueError, answered with a 500.
\* A file pypdf cannot read ends in the 404 or the 500 of
\* handle_processing_error, by the wording of pypdf's message.
UploadFileProcess(u) ==
    /\ up[u].pc = "saved"
    /\ LET l == up[u]
           content == disk[l.file_path]
           attached == attach_endorsement_to_pdf_function(content.pages,
                                                          "blue", 0)
       IN  IF content.text = "corrupt"
           THEN /\ \E status_code \in {404, 500} :
                      up' = [up EXCEPT ![u] = UpFinished(l, status_code)]
                /\ UNCHANGED disk
           ELSE IF Len(content.pages) = 0
           THEN /\ up' = [up EXCEPT ![u] = UpFinished(l, 400)]
                /\ UNCHANGED disk
           ELSE /\ up' = [up EXCEPT ![u] =
                            UpFinished([l EXCEPT !.read_doc =
                                                   content.pages[1].doc],
                                       500)]
                /\ IF attached.raised # None
                   THEN UNCHANGED disk
                   ELSE disk' = Put(disk, ProcessedPath(l.file_path),
                                    [text |-> content.text,
                                     pages |-> attached.out])
    /\ UNCHANGED <<prep, parsed, attach_call, signer, environ, key_file, overlay_yaml, detector, auth,
                   dispatch, uuids,
                   rq, sign_calls>>

\* documents.py:114-124: validation, then the path from a fresh uuid
UploadDocumentStart(u) ==
    /\ up[u].pc = "new"
    /\ \A q \in Uploaders : q < u => up[q].pc # "new"
    /\ \E f \in UploadInputs :
        LET l == [up[u] EXCEPT !.endpoint = "/upload-document", !.file = f]
            invalid == validate_file_upload(f, 10)
        IN  IF invalid # NoError
            THEN /\ up' = [up EXCEPT ![u] =
                             UpFinished(l, invalid.status_code)]
                 /\ UNCHANGED uuids
            ELSE /\ uuids' = uuids + 1
                 /\ up' = [up EXCEPT ![u] =
                             [l EXCEPT !.pc = "doc_read",
                                !.file_path =
                                    DocumentPath(uuid4(uuids + 1),
                                                 f.filename)]]
    /\ UNCHANGED <<prep, parsed, attach_call, signer, environ, key_file, overlay_yaml, detector, auth,
                   dispatch, disk,
                   rq, sign_calls>>

\* documents.py:126-137: the content is read and written, the answer is a
\* FileUploadResponse
UploadDocumentSave(u) ==
    /\ up[u].pc = "doc_read"
    /\ disk' = Put(disk, up[u].file_path,
                   [text |-> up[u].file.text,
                    pages |-> Doc(u, up[u].file.pages)])
    /\ up' = [up EXCEPT ![u] = UpFinished(@, 200)]
    /\ UNCHANGED <<prep, parsed, attach_call, signer, environ, key_file, overlay_yaml, detector, auth,
                   dispatch, uuids,
                   rq, sign_calls>>

(***************************************************************************)
(* The server and its requests.                                            *)
(***************************************************************************)
NoCall ==
    [pc |-> "none", pages |-> <<>>, ink_color |-> "", page_index |-> 0,
     raised |-> None, written |-> FALSE, out |-> <<>>]

NoPrep ==
    [pc |-> "none", bill |-> <<>>, text |-> <<>>, key |-> None,
     clock |-> [day |-> 0, hour |-> 0], tz |-> 0, calls |-> <<>>]

NoParse ==
    [pc |-> "none", parser |-> "", text |-> <<>>, result |-> <<>>,
     raised |-> None, free_text_run |-> FALSE]

NoDetect == [pc |-> "none", terms |-> <<>>, text |-> <<>>, result |-> <<>>]

NoAuth == [pc |-> "none"]

NoDispatch == [pc |-> "none"]

NoSigner ==
    [pc |-> "none", payload |-> <<>>, data |-> <<>>, private_key_pem |-> None,
     private_key_object |-> None, calls |-> 0, raised |-> None,
     signatures |-> <<>>]

Init ==
    /\ attach_call = NoCall
    /\ signer = NoSigner
    /\ environ \in {None, "", "BAD"}
    /\ key_file \in {None, "K1"}
    /\ overlay_yaml \in OverlayConfigs
    /\ disk = <<>>
    /\ uuids = 0
    /\ detector = NoDetect
    /\ auth = NoAuth
    /\ dispatch = NoDispatch
    /\ rq = [r \in Requests |-> Locals]
    /\ sign_calls = {}
    /\ up = [u \in Uploaders |-> UpLocals]
    /\ prep = NoPrep
    /\ parsed = NoParse

Next ==
    \/ \E r \in Requests : EndorseBillStart(r)
    \/ \E r \in Requests : EndorseBillSave(r)
    \/ \E r \in Requests : EndorseBillRule(r)
    \/ \E r \in Requests : EndorseBillReturn(r)
    \/ generate_private_key
    \/ KeyFileReplaced

Spec == Init /\ [][Next]_vars

(***************************************************************************)
(* The compositor called on its own, with every page count and page index. *)
(***************************************************************************)
AttachCalls ==
    {[NoCall EXCEPT !.pc = "ready", !.pages = Doc(0, n), !.ink_color = ink,
                    !.page_index = i] :
        n \in 0..MaxPages, ink \in InkColors,
        i \in (-(MaxPages + 1))..(MaxPages + 1)}

InitAttach ==
    /\ attach_call \in AttachCalls
    /\ signer = NoSigner
    /\ environ = None
    /\ key_file = None
    /\ overlay_yaml = [raises |-> FALSE, config |-> <<>>]
    /\ disk = <<>>
    /\ uuids = 0
    /\ detector = NoDetect
    /\ auth = NoAuth
    /\ dispatch = NoDispatch
    /\ rq = [r \in Requests |-> Locals]
    /\ sign_calls = {}
    /\ up = [u \in Uploaders |-> UpLocals]
    /\ prep = NoPrep
    /\ parsed = NoParse

\* attach_endorsement_to_pdf.py:8-98
AttachCall ==
    /\ attach_call.pc = "ready"
    /\ LET res == attach_endorsement_to_pdf_function(
                      attach_call.pages, attach_call.ink_color,
                      attach_call.page_index)
       IN  attach_call' =
               [attach_call EXCEPT
                  !.pc = IF res.raised = None THEN "returned" ELSE "raised",
                  !.raised = res.raised, !.written = res.written,
                  !.out = res.out]
    /\ UNCHANGED <<prep, parsed, up, signer, environ, key_file, overlay_yaml, detector, auth,
                   dispatch, disk, uuids, rq,
                   sign_calls>>

NextAttach == AttachCall

SpecAttach == InitAttach /\ [][NextAttach]_vars

(***************************************************************************)
(* Claims about the compositor (checked under SpecAttach).                 *)
(***************************************************************************)
\* C1: for a source of n >= 1 pages and every page index the compositor
\* accepts (it returned), the document it wrote has exactly n pages.
C1_PageCountPreserved ==
    (attach_call.pc = "returned" /\ Len(attach_call.pages) >= 1)
        => Len(attach_call.out) = Len(attach_call.pages)

\* the pages of the source with the overlay merged onto the page at idx
StampedInPlace(pages, ink, idx) ==
    [k \in DOMAIN pages |->
        IF k = PyPos(pages, idx)
        THEN [pages[k] EXCEPT !.overlays = Append(@, overlay(ink))]
        ELSE pages[k]]

\* C2: for every accepted page index i the output is the input page
\* sequence, in order, with the overlay merged onto exactly page i (the
\* last page for -1) and every other page unmodified.
C2_OverlayOnOnePageInOrder ==
    attach_call.pc = "returned"
        => attach_call.out = StampedInPlace(attach_call.pages,
                                            attach_call.ink_color,
                                            attach_call.page_index)

\* C3: called with a non-negative page_index >= the page count, the
\* compositor raises and writes no output file (no page is stamped).
C3_OutOfRangeRaises ==
    (attach_call.pc # "ready"
     /\ attach_call.page_index >= 0
     /\ attach_call.page_index >= Len(attach_call.pages))
        => (attach_call.pc = "raised" /\ ~attach_call.written
            /\ attach_call.out = <<>>)

\* C3 witness: a call past the end of a source with pages has raised
C3_Witness ==
    /\ attach_call.pc = "raised"
    /\ Len(attach_call.pages) >= 1
    /\ attach_call.page_index >= Len(attach_call.pages)

(***************************************************************************)
(* Claims about endorse_bill (checked under Spec).                         *)
(***************************************************************************)
Done(r) == rq[r].pc = "done"

\* C4: after endorse_bill finishes, on every path, the temporary uploaded
\* file it saved under the upload directory no longer exists.
C4_UploadRemovedOnEveryPath ==
    \A r \in Requests :
        Done(r) => rq[r].filepath \notin DOMAIN disk

\* C5: if endorse_bill fails after endorsed output files were written for
\* earlier rules, none of the endorsed output files of that request
\* remain on disk when the error is returned.
C5_NoOutputsLeftAfterFailure ==
    \A r \in Requests :
        (Done(r) /\ rq[r].response.status_code >= 400)
            => \A p \in Range(rq[r].endorsed_files) : p \notin DOMAIN disk

\* no signing key is configured: PRIVATE_KEY_PEM unset or empty and no
\* private_key.pem file
NoKeyConfigured(cfg) == ~Truthy(cfg[1]) /\ cfg[2] = None

\* a payload as endorse_bill prepares it
SamplePayload ==
    prepare_endorsement_for_signing(parse_bill("bill"), <<"A", ":", " ">>,
                                    Today)

\* sign_endorsement with neither a PEM string nor a key object raises
\* ValueError and adds no signature
SignWithoutKeyRaises ==
    \A pem \in {None, ""} : \A obj \in {None, ""} :
        LET res == sign_endorsement(SamplePayload, "N/A", pem, obj)
        IN  res.raised = "ValueError" /\ res.data = SamplePayload

\* C6 as stated: with no signing key configured endorse_bill ends in a 500
\* server error and never returns a success response, an unsigned
\* endorsement or an output PDF; sign_endorsement without a key raises
\* ValueError.
C6_NoKeyEndsIn500 ==
    /\ \A r \in Requests :
          (Done(r) /\ NoKeyConfigured(rq[r].start_cfg))
              => /\ rq[r].response.status_code = 500
                 /\ rq[r].response.endorsements = <<>>
                 /\ rq[r].endorsed_files = <<>>
    /\ SignWithoutKeyRaises

\* C6 amended: with no signing key configured, endorse_bill ends in the 400
\* of validate_file_upload when the upload fails validation and in a 500
\* server error otherwise; it never returns a success response, signs
\* nothing, saves no upload and writes no output PDF; sign_endorsement
\* without a key raises ValueError.
C6_NoKeyNeverSucceeds ==
    /\ \A r \in Requests :
          (Done(r) /\ NoKeyConfigured(rq[r].start_cfg))
              => /\ \/ rq[r].response.status_code = 500
                    \/ /\ rq[r].response.status_code = 400
                       /\ rq[r].response.error_code = "FILE_UPLOAD_ERROR"
                 /\ rq[r].response.endorsements = <<>>
                 /\ rq[r].endorsed_files = <<>>
                 /\ rq[r].filepath = NoPath
                 /\ \A c \in sign_calls : c.req # r
    /\ SignWithoutKeyRaises

\* C6 witness: a request that passed validation with no key configured was
\* answered with the 500 of the key check
C6_Witness ==
    \E r \in Requests :
        /\ Done(r) /\ NoKeyConfigured(rq[r].start_cfg)
        /\ rq[r].response.status_code = 500
        /\ rq[r].response.error_code = "INTERNAL_SERVER_ERROR"

C8_KeyIndependentOfRequest ==
    \A a \in sign_calls : \A b \in sign_calls :
        (a.cfg = b.cfg /\ a.input # b.input) => a.key = b.key

\* C8 witness: two requests with different uploads and form fields have
\* signed under the same configuration
C8_Witness ==
    \E a \in sign_calls : \E b \in sign_calls :
        /\ a.req # b.req /\ a.cfg = b.cfg
        /\ a.input.pages # b.input.pages
        /\ a.input.placement # b.input.placement
        /\ a.key \in Keys

(***************************************************************************)
(* The preparer and the signer called on their own: a payload is prepared  *)
(* from a bill record with any subset of its fields, then sign_endorsement *)
(* is called on that object, and again on the object it returned.          *)
(***************************************************************************)
FullBill ==
    [document_type |-> "invoice", bill_number |-> "12345",
     customer_name |-> "Ann", total_amount |-> "45.00", currency |-> "USD"]

\* the bill records: FullBill restricted to each subset of its keys
BillRecords == {[f \in S |-> FullBill[f]] : S \in SUBSET (DOMAIN FullBill)}

\* the annotation texts, the empty string among them
AnnotationTexts == {<<>>, <<"A", " ", "B", ":", " ", "m">>}

\* the key arguments of a call: <<private_key_pem, private_key_object>>
KeyArguments ==
    {<<"K1", None>>, <<None, "K2">>, <<"K1", "K2">>, <<"BAD", None>>,
     <<None, None>>, <<"", "">>}

InitSign ==
    /\ attach_call = NoCall
    /\ \E b \in BillRecords, t \in AnnotationTexts, ka \in KeyArguments :
          LET payload == prepare_endorsement_for_signing(b, t, Today)
          IN  signer = [NoSigner EXCEPT
                          !.pc = "ready", !.payload = payload,
                          !.data = payload, !.private_key_pem = ka[1],
                          !.private_key_object = ka[2]]
    /\ environ = None
    /\ key_file = None
    /\ overlay_yaml = [raises |-> FALSE, config |-> <<>>]
    /\ disk = <<>>
    /\ uuids = 0
    /\ detector = NoDetect
    /\ auth = NoAuth
    /\ dispatch = NoDispatch
    /\ rq = [r \in Requests |-> Locals]
    /\ sign_calls = {}
    /\ up = [u \in Uploaders |-> UpLocals]
    /\ prep = NoPrep
    /\ parsed = NoParse

\* ucc3_endorsements.py:7-65, called on the object the last call returned
SignCall ==
    /\ signer.pc \in {"ready", "signed"}
    /\ signer.calls < MaxSignCalls
    /\ LET res == sign_endorsement(signer.data, "N/A",
                                   signer.private_key_pem,
                                   signer.private_key_object)
       IN  signer' =
             [signer EXCEPT
                !.pc = IF res.raised = None THEN "signed" ELSE "raised",
                !.calls = @ + 1,
                !.raised = res.raised,
                !.data = res.data,
                !.signatures =
                    IF res.raised = None
                    THEN Append(@, DictGet(res.data, "signature", None))
                    ELSE @]
    /\ UNCHANGED <<prep, parsed, up, attach_call, environ, key_file, overlay_yaml, detector, auth,
                   dispatch, disk, uuids,
                   rq, sign_calls>>

NextSign == SignCall

SpecSign == InitSign /\ [][NextSign]_vars

(***************************************************************************)
(* Claims about the signer (checked under SpecSign).                       *)
(***************************************************************************)
\* C10: the Signer is idempotent: calling sign_endorsement with the same
\* key on the endorsement object a previous call returned leaves its
\* signature value unchanged.
C10_ResignKeepsSignature ==
    \A i \in DOMAIN signer.signatures : \A j \in DOMAIN signer.signatures :
        signer.signatures[i] = signer.signatures[j]

(***************************************************************************)
(* The three endpoints that save an upload, side by side: one request to   *)
(* endorse_bill, which ends at its save (no rules are configured), and two *)
(* requests to upload_file_endpoint or upload_document.                    *)
(***************************************************************************)
FirstRequest == CHOOSE r \in Requests : \A q \in Requests : r <= q

InitUpload ==
    /\ attach_call = NoCall
    /\ signer = NoSigner
    /\ environ = None
    /\ key_file = "K1"
    /\ overlay_yaml = [raises |-> FALSE, config |-> <<>>]
    /\ disk = <<>>
    /\ uuids = 0
    /\ detector = NoDetect
    /\ auth = NoAuth
    /\ dispatch = NoDispatch
    /\ rq = [r \in Requests |-> Locals]
    /\ sign_calls = {}
    /\ up = [u \in Uploaders |-> UpLocals]
    /\ prep = NoPrep
    /\ parsed = NoParse

NextUpload ==
    \/ EndorseBillStart(FirstRequest)
    \/ EndorseBillSave(FirstRequest)
    \/ \E u \in Uploaders : UploadFileSave(u)
    \/ \E u \in Uploaders : UploadFileProcess(u)
    \/ \E u \in Uploaders : UploadDocumentStart(u)
    \/ \E u \in Uploaders : UploadDocumentSave(u)

SpecUpload == InitUpload /\ [][NextUpload]_vars

(***************************************************************************)
(* Claims about the upload paths (checked under SpecUpload).               *)
(***************************************************************************)
\* the requests that have saved their upload, each with the path it used
SavedUploads ==
    {[req |-> r, path |-> rq[r].filepath] :
        r \in {q \in Requests : rq[q].pc = "done"
                                /\ rq[q].filepath # NoPath}}
    \cup {[req |-> u, path |-> up[u].file_path] :
            u \in {q \in Uploaders : up[q].pc \in {"saved", "done"}
                                     /\ up[q].file_path # NoPath}}

\* C9: uploaded files are written to caller-unique paths: any two upload
\* requests, concurrent or sequential and even with the same client file
\* name, save their uploads at different paths, and no request reads the
\* upload of another request.
C9_UploadPathsDiffer ==
    /\ \A a \in SavedUploads : \A b \in SavedUploads :
          a.req # b.req => a.path # b.path
    /\ \A u \in Uploaders : up[u].read_doc \in {0, u}

(***************************************************************************)
(* The preparer and the signer called on one bill, more than once, while   *)
(* the server's clock runs.  The clock is a day of January 2025 and an     *)
(* hour in UTC; tz is the server's time zone, in hours east of UTC.        *)
(***************************************************************************)
TZOffsets == {-5, 0, 9}

\* datetime.now(): the naive local time of the server
datetime_now(clock, tz) ==
    IF clock.hour + tz < 0
    THEN [day |-> clock.day - 1, hour |-> clock.hour + tz + 24]
    ELSE IF clock.hour + tz >= 24
    THEN [day |-> clock.day + 1, hour |-> clock.hour + tz - 24]
    ELSE [day |-> clock.day, hour |-> clock.hour + tz]

\* strftime("%Y-%m-%d") of a moment of January 2025
strftime(t) ==
    <<"2025", "-", "01", "-">>
    \o (IF t.day < 10 THEN <<"0">> ELSE <<>>) \o <<ToString(t.day)>>

\* a bill record that brings date fields of its own
DatedBill ==
    [f \in (DOMAIN FullBill) \cup {"endorsement_date", "date"} |->
        IF f \in DOMAIN FullBill THEN FullBill[f]
        ELSE <<"1999", "-", "12", "-", "31">>]

PrepBills == BillRecords \cup {DatedBill}

InitPrep ==
    /\ attach_call = NoCall
    /\ signer = NoSigner
    /\ environ = None
    /\ key_file = None
    /\ overlay_yaml = [raises |-> FALSE, config |-> <<>>]
    /\ disk = <<>>
    /\ uuids = 0
    /\ detector = NoDetect
    /\ auth = NoAuth
    /\ dispatch = NoDispatch
    /\ rq = [r \in Requests |-> Locals]
    /\ sign_calls = {}
    /\ up = [u \in Uploaders |-> UpLocals]
    /\ parsed = NoParse
    /\ \E b \in PrepBills, t \in AnnotationTexts, k \in {"K1", "BAD", None},
          h \in {1, 13, 20}, z \in TZOffsets :
          prep = [NoPrep EXCEPT !.pc = "ready", !.bill = b, !.text = t,
                                !.key = k, !.tz = z,
                                !.clock = [day |-> 2, hour |-> h]]

\* a signer whose padding is salted, so that no two signatures are equal
PrepCallSalted ==
    /\ prep.pc = "ready"
    /\ Len(prep.calls) < MaxPrepCalls
    /\ LET payload == prepare_endorsement_for_signing(
                          prep.bill, prep.text,
                          strftime(datetime_now(prep.clock, prep.tz)))
           res == sign_endorsement(
                      payload \o << <<"salt", Len(prep.calls)>> >>,
                      Get(prep.bill, "customer_name", "N/A"), prep.key, None)
       IN  prep' = [prep EXCEPT !.calls = Append(@,
                      [payload |-> payload, raised |-> res.raised,
                       data |-> res.data,
                       local |-> datetime_now(prep.clock, prep.tz),
                       utc |-> prep.clock])]
    /\ UNCHANGED <<attach_call, signer, environ, key_file, overlay_yaml, detector, auth,
                   dispatch, disk,
                   uuids, rq, up, parsed, sign_calls>>

\* routes/endorsement.py:177-184: the payload is prepared and signed
PrepCall ==
    /\ prep.pc = "ready"
    /\ Len(prep.calls) < MaxPrepCalls
    /\ LET payload == prepare_endorsement_for_signing(
                          prep.bill, prep.text,
                          strftime(datetime_now(prep.clock, prep.tz)))
           res == sign_endorsement(
                      payload, Get(prep.bill, "customer_name", "N/A"),
                      prep.key, None)
       IN  prep' = [prep EXCEPT !.calls = Append(@,
                      [payload |-> payload, raised |-> res.raised,
                       data |-> res.data,
                       local |-> datetime_now(prep.clock, prep.tz),
                       utc |-> prep.clock])]
    /\ UNCHANGED <<attach_call, signer, environ, key_file, overlay_yaml, detector, auth,
                   dispatch, disk,
                   uuids, rq, up, parsed, sign_calls>>

\* six hours pass
ClockTick ==
    /\ prep.pc = "ready"
    /\ prep.clock.day < MaxDay
    /\ prep' = [prep EXCEPT !.clock =
                  IF @.hour + 6 >= 24
                  THEN [day |-> @.day + 1, hour |-> @.hour + 6 - 24]
                  ELSE [day |-> @.day, hour |-> @.hour + 6]]
    /\ UNCHANGED <<attach_call, signer, environ, key_file, overlay_yaml, detector, auth,
                   dispatch, disk,
                   uuids, rq, up, parsed, sign_calls>>

NextPrep == PrepCall \/ ClockTick

SpecPrep == InitPrep /\ [][NextPrep]_vars

(***************************************************************************)
(* Claims about the preparer and the signer (checked under SpecPrep).      *)
(***************************************************************************)
\* the public half of a key, and signature verification with it
public_key(key) == [public |-> key]
rsa_verify(pub, sig, bytes) == sig.by = pub.public /\ sig.over = bytes

\* the signature sign_endorsement stored verifies over the payload's bytes
Verifies(c) ==
    rsa_verify(public_key(prep.key),
               DictGet(c.data, "signature", None).b64, str_bytes(c.payload))

SignedObjectIsPayloadPlusSignature ==
    \A k \in Keys :
        sign_endorsement(SamplePayload, "N/A", k, None).data
            = Append(SamplePayload,
                     <<"signature",
                       b64encode(rsa_sign(k, str_bytes(SamplePayload)))>>)

\* C12: in every signed endorsement that endorse_bill logs, stamps and
\* reports, the signature is the signature of exactly the serialized
\* payload built for that rule from the bill data: no payload field is
\* changed between signing and use, and the returned object differs from
\* the signed payload only by the added signature.
C12_SignatureCoversThePayload ==
    /\ \A r \in Requests :
          rq[r].pc \in {"loop", "return"} =>
              \A i \in DOMAIN rq[r].applied_endorsements :
                  LET d == rq[r].applied_endorsements[i]
                      payload == prepare_endorsement_for_signing(
                                     rq[r].bill_data, d.text, Today)
                  IN  /\ d.text = EndorsementText(
                                      rq[r].sovereign_endorsements[i])
                      /\ d.endorser_name
                           = DictGet(payload, "endorser_id", None)
                      /\ d.signature
                           = b64encode(rsa_sign(rq[r].private_key_pem,
                                                str_bytes(payload)))
    /\ SignedObjectIsPayloadPlusSignature

\* C12 witness: a request has signed and reported the endorsements of all
\* its rules, the one without a trigger among them
C12_Witness ==
    \E r \in Requests :
        /\ rq[r].pc = "return"
        /\ Len(rq[r].applied_endorsements) >= 2
        /\ rq[r].private_key_pem \in Keys
        /\ \E i \in DOMAIN rq[r].sovereign_endorsements :
              "trigger" \notin DOMAIN rq[r].sovereign_endorsements[i]

(***************************************************************************)
(* The extractors on text.  A text is a sequence of tokens: a label such   *)
(* as "Amount Due:" is one token, a currency glyph is one token, and an    *)
(* amount is spelled in tokens of one character, so that the patterns'     *)
(* character classes, find and replace are computed.                       *)
(***************************************************************************)
Digits == <<"0", "1", "2", "3", "4", "5", "6", "7", "8", "9">>
DigitOf(c) == (CHOOSE i \in DOMAIN Digits : Digits[i] = c) - 1

\* the character class [\d.,]
AmountChars == Range(Digits) \cup {".", ","}

\* the character class [\$€£¥]
Glyphs == {"$", "€", "£", "¥"}

\* labels the patterns know; "amount due:" differs from "Amount Due:" in
\* case only
BillNumberLabels == {"Account Number:"}
AmountLabels == {"Amount Due:", "amount due:"}
BillNumbers == {"12345"}

\* the length of the longest run of tokens of S that starts at text[i]
RECURSIVE RunLen(_, _, _)
RunLen(text, i, S) ==
    IF i <= Len(text) /\ text[i] \in S THEN 1 + RunLen(text, i + 1, S)
    ELSE 0

\* re.search: the first of the positions where the pattern matches, or 0
FirstMatch(matches) ==
    IF matches # {}
    THEN CHOOSE i \in matches : \A j \in matches : i <= j
    ELSE 0

\* str.find(c): 0-based position of the first c, or -1
find(s, c) ==
    IF \E i \in DOMAIN s : s[i] = c
    THEN (CHOOSE i \in DOMAIN s : s[i] = c /\ \A j \in 1..(i - 1) : s[j] # c)
         - 1
    ELSE -1

\* str.replace(old, new) for one-character old; new is a string of at most
\* one character, given as a sequence
RECURSIVE replace(_, _, _)
replace(s, old, new) ==
    IF s = <<>> THEN <<>>
    ELSE (IF s[1] = old THEN new ELSE <<s[1]>>) \o replace(Tail(s), old, new)

\* the number a string of digits spells
RECURSIVE IntOf(_)
IntOf(s) ==
    IF s = <<>> THEN 0
    ELSE 10 * IntOf(SubSeq(s, 1, Len(s) - 1)) + DigitOf(s[Len(s)])

\* float(s) for a string over [\d.,]: Python accepts digits with at most
\* one '.', and at least one digit; anything else is a ValueError
FloatAccepts(s) ==
    /\ \A i \in DOMAIN s : s[i] # ","
    /\ Cardinality({i \in DOMAIN s : s[i] = "."}) <= 1
    /\ \E i \in DOMAIN s : s[i] \in Range(Digits)

\* a float as mant / 10^exp, without trailing zeros
RECURSIVE Normal(_, _)
Normal(mant, exp) ==
    IF exp > 0 /\ mant % 10 = 0 THEN Normal(mant \div 10, exp - 1)
    ELSE [mant |-> mant, exp |-> exp]

\* the value of float(s) when FloatAccepts(s)
float(s) ==
    LET dot == find(s, ".")
        exp == IF dot < 0 THEN 0 ELSE Len(s) - (dot + 1)
    IN  Normal(IntOf(replace(s, ".", <<>>)), exp)

\* the string "N/A" where a float may stand
NotAvailable == [str |-> "N/A"]

\* the ISO code both passes of InstrumentAnnotator's parser give a glyph
\* (parser.py:35-42 and 108-117); "" stands for no captured glyph
CurrencyCode(currency_symbol) ==
    IF currency_symbol = "$" THEN "USD"
    ELSE IF currency_symbol = "€" THEN "EUR"
    ELSE IF currency_symbol = "£" THEN "GBP"
    ELSE IF currency_symbol = "¥" THEN "JPY"
    ELSE "N/A"

\* label [:\s]* ([\w-]+): a bill number follows the label at text[i]
BillNumberAt(text, i) ==
    /\ text[i] \in BillNumberLabels
    /\ i + 1 <= Len(text) /\ text[i + 1] \in BillNumbers

\* 1 when a glyph of the class stands at text[i], else 0
GlyphLen(text, i) == IF i <= Len(text) /\ text[i] \in Glyphs THEN 1 ELSE 0

\* label [:\s]* [\$€£¥]? \s* ([\d.,]+) at text[i], for the given labels
AmountAt(text, i, labels) ==
    /\ text[i] \in labels
    /\ RunLen(text, i + 1 + GlyphLen(text, i + 1), AmountChars) >= 1

\* the groups of that match: the glyph ("" when none) and the amount
AmountGroups(text, i) ==
    LET g == GlyphLen(text, i + 1)
        n == RunLen(text, i + 1 + g, AmountChars)
    IN  [glyph |-> IF g = 1 THEN text[i + 1] ELSE "",
         amount |-> SubSeq(text, i + 1 + g, i + g + n)]

\* a normalisation that always reads ',' as the thousands separator
NormalizedAmountCommaThousands(amount_str) == replace(amount_str, ",", <<>>)

\* parser.py:95-101: the amount string handed to float
NormalizedAmount(amount_str) ==
    IF find(amount_str, ",") >= 0 /\ find(amount_str, ".") >= 0
    THEN IF find(amount_str, ",") < find(amount_str, ".")
         THEN replace(amount_str, ",", <<>>)
         ELSE replace(replace(amount_str, ".", <<>>), ",", <<".">>)
    ELSE amount_str

\* parser.py:103-106
FloatOrNotAvailable(amount_str) ==
    IF FloatAccepts(amount_str) THEN float(amount_str) ELSE NotAvailable

\* the pattern customer_name of parser.py:11 on the texts of the model:
\* with IGNORECASE its alternative "To" matches in "Pay to the order of"
\* and takes up to four words
CustomerNameAt(text, i) ==
    /\ text[i] = "Pay to the order of"
    /\ i + 1 <= Len(text) /\ text[i + 1] = "Ann"

\* parser.py:79-132
parse_structured_bill(bill_text) ==
    LET b == FirstMatch({i \in DOMAIN bill_text : BillNumberAt(bill_text, i)})
        a == FirstMatch({i \in DOMAIN bill_text : AmountAt(bill_text, i, AmountLabels)})
        c == FirstMatch({i \in DOMAIN bill_text : CustomerNameAt(bill_text, i)})
        keys == {"total_amount", "currency", "customer_name"}
                \cup (IF b > 0 THEN {"bill_number"} ELSE {})
    IN  [k \in keys |->
            CASE k = "bill_number" -> bill_text[b + 1]
              [] k = "total_amount" ->
                   IF a > 0
                   THEN FloatOrNotAvailable(NormalizedAmount(
                            AmountGroups(bill_text, a).amount))
                   ELSE NotAvailable
              [] k = "currency" ->
                   IF a > 0
                   THEN CurrencyCode(AmountGroups(bill_text, a).glyph)
                   ELSE "N/A"
              [] k = "customer_name" ->
                   IF c > 0 THEN "the order of Ann" ELSE "Valued Customer"]

\* "Pay to the order of (.*?)(?: the sum| on or before)" at text[i]
PayeeAt(text, i) ==
    /\ text[i] = "Pay to the order of"
    /\ \E j \in (i + 1)..Len(text) : text[j] \in {"the sum of", "on or before"}

\* group 1 of that match
PayeeGroup(text, i) ==
    LET j == CHOOSE j \in (i + 1)..Len(text) :
                 /\ text[j] \in {"the sum of", "on or before"}
                 /\ \A h \in (i + 1)..(j - 1) :
                        text[h] \notin {"the sum of", "on or before"}
    IN  SubSeq(text, i + 1, j - 1)

\* parser.py:21-48: raised is None when it returned
parse_free_text_bill(bill_text) ==
    LET p == FirstMatch({i \in DOMAIN bill_text : PayeeAt(bill_text, i)})
        a == FirstMatch({i \in DOMAIN bill_text : AmountAt(bill_text, i, {"the sum of"})})
        c == FirstMatch({i \in DOMAIN bill_text : /\ bill_text[i] = "the sum of"
                                   /\ GlyphLen(bill_text, i + 1) = 1})
        d == FirstMatch({i \in DOMAIN bill_text : bill_text[i] = "on or before"})
        amount == replace(AmountGroups(bill_text, a).amount, ",", <<>>)
        keys == (IF p > 0 THEN {"payee"} ELSE {})
                \cup (IF a > 0 THEN {"total_amount"} ELSE {})
                \cup (IF c > 0 THEN {"currency"} ELSE {})
                \cup (IF d > 0 THEN {"due_date"} ELSE {})
    IN  IF a > 0 /\ ~FloatAccepts(amount)
        THEN [raised |-> "ValueError", data |-> <<>>]
        ELSE [raised |-> None,
              data |-> [k \in keys |->
                 CASE k = "payee" -> PayeeGroup(bill_text, p)
                   [] k = "total_amount" -> float(amount)
                   [] k = "currency" -> CurrencyCode(bill_text[c + 1])
                   [] k = "due_date" ->
                        replace(SubSeq(bill_text, d + 1, Len(bill_text)),
                                ".", <<>>)]]

\* a parse_bill that lays the free-text record over the structured one
BillParser_parse_bill_merged(bill_text) ==
    LET structured_data == parse_structured_bill(bill_text)
        free_text == parse_free_text_bill(bill_text)
    IN  IF "bill_number" \in DOMAIN structured_data
        THEN [raised |-> None, result |-> structured_data,
              free_text_run |-> FALSE]
        ELSE IF free_text.raised # None
        THEN [raised |-> free_text.raised, result |-> <<>>,
              free_text_run |-> TRUE]
        ELSE [raised |-> None,
              result |-> [k \in DOMAIN structured_data
                                \cup DOMAIN free_text.data |->
                            IF k \in DOMAIN free_text.data
                            THEN free_text.data[k] ELSE structured_data[k]],
              free_text_run |-> TRUE]

\* parser.py:68-77: free_text_run tells whether the free-text pass ran
BillParser_parse_bill(bill_text) ==
    LET structured_data == parse_structured_bill(bill_text)
        free_text == parse_free_text_bill(bill_text)
    IN  IF "bill_number" \in DOMAIN structured_data
        THEN [raised |-> None, result |-> structured_data,
              free_text_run |-> FALSE]
        ELSE IF free_text.raised # None
        THEN [raised |-> free_text.raised, result |-> <<>>,
              free_text_run |-> TRUE]
        ELSE IF DOMAIN free_text.data # {}
        THEN [raised |-> None, result |-> free_text.data,
              free_text_run |-> TRUE]
        ELSE [raised |-> None, result |-> <<>>, free_text_run |-> TRUE]

\* bill_parser.py:71-109 on a text of tokens.  The pattern currency is
\* searched without IGNORECASE (line 85), the others with it.
EndorserKit_parse_bill(bill_text) ==
    LET b == FirstMatch({i \in DOMAIN bill_text : BillNumberAt(bill_text, i)})
        a == FirstMatch({i \in DOMAIN bill_text : AmountAt(bill_text, i, AmountLabels)})
        c == FirstMatch({i \in DOMAIN bill_text : /\ bill_text[i] = "Amount Due:"
                                   /\ GlyphLen(bill_text, i + 1) = 1})
        keys == {"currency", "customer_name"}
                \cup (IF b > 0 THEN {"bill_number"} ELSE {})
                \cup (IF a > 0 THEN {"total_amount"} ELSE {})
    IN  [k \in keys |->
            CASE k = "bill_number" -> bill_text[b + 1]
              [] k = "total_amount" -> AmountGroups(bill_text, a).amount
              [] k = "currency" ->
                   IF c > 0
                   THEN IF bill_text[c + 1] = "$" THEN "USD"
                        ELSE bill_text[c + 1]
                   ELSE "N/A"
              [] k = "customer_name" -> "Valued Customer"]

\* bill_parser.py:43-49: the record, or a dict with the key "error"
bill_data_from_text(text) ==
    IF ~Truthy(Get(EndorserKit_parse_bill(text), "bill_number", None))
    THEN [error |-> "Could not parse bill number from PDF."]
    ELSE EndorserKit_parse_bill(text)

\* the amounts of the texts, character by character
AmountStrings ==
    {<<"4", "5", ".", "0", "0">>,
     <<"1", ",", "2", "3", "4", ".", "5", "6">>,
     <<"1", ".", "2", "3", "4", ",", "5", "6">>,
     <<"1", ",", "2", "3", "4", ",", "5", "6", "7", ".", "8">>,
     <<"1", ".", "2", "3", "4", ".", "5", "6", "7", ",", "8">>,
     <<"1", ".", "2", ".", "3">>,
     <<".">>,
     <<",">>,
     <<"1", ",", "2", "0", "0">>,
     <<"4", "5", ".", "0", "0", ".">>}

\* what may stand between a label and the amount: nothing, a glyph of the
\* class, or a glyph outside it
GlyphParts == {<<>>} \cup {<<g>> : g \in Glyphs \cup {"₹"}}

BillParts == {<<>>, <<"Account Number:", "12345">>}

AmountParts ==
    {<<l>> \o g \o a : l \in AmountLabels, g \in GlyphParts,
                       a \in AmountStrings}

BasicFreeText ==
    <<"Pay to the order of", "Ann", "the sum of", "$", "4", "5", ".", "0",
      "0", "on or before", "Friday">>

FreeTextParts ==
    {<<"Pay to the order of", "Ann", "the sum of">> \o g \o a
       \o <<"on or before", "Friday">> : g \in GlyphParts,
                                        a \in AmountStrings}
    \cup {<<"Pay to the order of", "Ann", "on or before", "Friday">>,
          <<"the sum of", "$", "4", "5">>}

\* the sentence of free text after a sentence of prose that holds some of
\* its words
ProseTexts ==
    {<<"Items:", "the sum of", "3", "parts">> \o BasicFreeText,
     <<"Due", "on or before", "the date below">> \o BasicFreeText}

\* the texts: a bill number or none, then an amount line, a sentence of
\* free text, both or neither; and the sentence of free text after prose
BillTexts ==
    {b \o f : b \in BillParts, f \in {<<>>} \cup FreeTextParts}
    \cup {b \o a \o f : b \in BillParts, a \in AmountParts,
                        f \in {<<>>, BasicFreeText}}
    \cup ProseTexts

Parsers == {"InstrumentAnnotator", "EndorserKit"}

InitParse ==
    /\ attach_call = NoCall
    /\ signer = NoSigner
    /\ environ = None
    /\ key_file = None
    /\ overlay_yaml = [raises |-> FALSE, config |-> <<>>]
    /\ disk = <<>>
    /\ uuids = 0
    /\ detector = NoDetect
    /\ auth = NoAuth
    /\ dispatch = NoDispatch
    /\ rq = [r \in Requests |-> Locals]
    /\ sign_calls = {}
    /\ up = [u \in Uploaders |-> UpLocals]
    /\ prep = NoPrep
    /\ \E p \in Parsers, t \in BillTexts :
          parsed = [NoParse EXCEPT !.pc = "ready", !.parser = p, !.text = t]

\* parser.py:68-77 BillParser.parse_bill, or bill_parser.py:43-49, which has
\* one pass only
ParseCall ==
    /\ parsed.pc = "ready"
    /\ LET res == IF parsed.parser = "InstrumentAnnotator"
                  THEN BillParser_parse_bill(parsed.text)
                  ELSE [raised |-> None,
                        result |-> bill_data_from_text(parsed.text),
                        free_text_run |-> FALSE]
       IN  parsed' = [parsed EXCEPT
                        !.pc = IF res.raised = None THEN "returned"
                               ELSE "raised",
                        !.raised = res.raised,
                        !.result = res.result,
                        !.free_text_run = res.free_text_run]
    /\ UNCHANGED <<attach_call, signer, environ, key_file, overlay_yaml, detector, auth,
                   dispatch, disk,
                   uuids, rq, up, prep, sign_calls>>

NextParse == ParseCall

SpecParse == InitParse /\ [][NextParse]_vars

(***************************************************************************)
(* Claims about the extractors (checked under SpecParse).                  *)
(***************************************************************************)
\* the structured patterns find no bill number in the text of the call
NoBillNumber == "bill_number" \notin DOMAIN parse_structured_bill(parsed.text)

\* C13: for every text in which the structured patterns find no
\* bill_number, the parser tries the free-text grammar before returning:
\* it returns the empty record only if the free-text pass also extracted
\* nothing, and it returns without running the free-text pass only when a
\* bill_number was found.
C13_FreeTextFallbackIsTried ==
    parsed.pc # "ready" =>
        /\ NoBillNumber => parsed.free_text_run
        /\ (NoBillNumber /\ parsed.pc = "returned" /\ parsed.result = <<>>)
              => parse_free_text_bill(parsed.text).data = <<>>
        /\ ~parsed.free_text_run => ~NoBillNumber

\* the call was of InstrumentAnnotator's parser and returned the record of
\* the structured pass
StructuredReturned ==
    /\ parsed.pc = "returned" /\ parsed.parser = "InstrumentAnnotator"
    /\ "bill_number" \in DOMAIN parsed.result

\* the amount string the structured pass captured in the text of the call
\* (<<>> when the amount pattern does not match)
CapturedAmount ==
    LET a == FirstMatch({i \in DOMAIN parsed.text : AmountAt(parsed.text, i, AmountLabels)})
    IN  IF a > 0 THEN AmountGroups(parsed.text, a).amount ELSE <<>>

\* s with every thousands separator removed and the decimal separator
\* written as a point
WithSeparators(s, thousands, decimal) ==
    replace(replace(s, thousands, <<>>), decimal, <<".">>)

\* C14: for every captured amount string that contains both ',' and '.',
\* the separator that appears first is treated as the thousands separator
\* and removed and the other as the decimal point, so "1.234,56" and
\* "1,234.56" both yield 1234.56, also when the thousands separator occurs
\* more than once.
C14_FirstSeparatorIsThousands ==
    LET s == CapturedAmount
        first == IF find(s, ",") < find(s, ".") THEN "," ELSE "."
        other == IF first = "," THEN "." ELSE ","
    IN  (StructuredReturned /\ find(s, ",") >= 0 /\ find(s, ".") >= 0)
            => /\ parsed.result.total_amount
                    = FloatOrNotAvailable(WithSeparators(s, first, other))
               /\ s \in {<<"1", ".", "2", "3", "4", ",", "5", "6">>,
                         <<"1", ",", "2", "3", "4", ".", "5", "6">>}
                     => parsed.result.total_amount
                            = [mant |-> 123456, exp |-> 2]
               /\ Len(s) > 8
                     => parsed.result.total_amount
                            = [mant |-> 12345678, exp |-> 1]

\* C14 witness: "1.234.567,8" was captured and gave 1234567.8
C14_Witness ==
    /\ StructuredReturned
    /\ CapturedAmount
         = <<"1", ".", "2", "3", "4", ".", "5", "6", "7", ",", "8">>
    /\ parsed.result.total_amount = [mant |-> 12345678, exp |-> 1]

\* the amount string the free-text pass captured in the text of the call
\* (<<>> when its amount pattern does not match)
CapturedFreeTextAmount ==
    LET a == FirstMatch({i \in DOMAIN parsed.text : AmountAt(parsed.text, i, {"the sum of"})})
    IN  IF a > 0 THEN AmountGroups(parsed.text, a).amount ELSE <<>>

\* C15: the extractor is total: for every input text BillParser.parse_bill
\* returns a record and never raises; in the structured and in the
\* free-text pass an amount string that cannot be parsed as a number (".",
\* ",", "1.2.3", "1,200") results in the value "N/A".
C15_ExtractorIsTotal ==
    (parsed.parser = "InstrumentAnnotator" /\ parsed.pc # "ready") =>
        /\ parsed.pc = "returned"
        /\ (StructuredReturned /\ CapturedAmount # <<>>
            /\ ~FloatAccepts(NormalizedAmount(CapturedAmount)))
              => parsed.result.total_amount = NotAvailable
        /\ (parsed.free_text_run /\ CapturedFreeTextAmount # <<>>
            /\ ~FloatAccepts(CapturedFreeTextAmount))
              => parsed.result.total_amount = NotAvailable

\* the glyph of the class that follows the first of the labels in the text
\* of the call, "" when there is none
GlyphAfter(labels) ==
    LET i == FirstMatch({j \in DOMAIN parsed.text : parsed.text[j] \in labels})
    IN  IF i > 0 /\ GlyphLen(parsed.text, i + 1) = 1
        THEN parsed.text[i + 1] ELSE ""

\* the ISO code of a glyph
IsoCode(glyph) ==
    CASE glyph = "$" -> "USD" [] glyph = "€" -> "EUR"
      [] glyph = "£" -> "GBP" [] glyph = "¥" -> "JPY" [] OTHER -> "N/A"

\* C16: in every record an extractor returns, currency is the ISO code of
\* the captured glyph ($ -> USD, € -> EUR, £ -> GBP, ¥ -> JPY) and is
\* "N/A" when the glyph is absent or unrecognized: in the structured pass,
\* in the free-text pass and in the EndorserKit parser.
C16_CurrencyIsIsoCode ==
    /\ StructuredReturned
          => Get(parsed.result, "currency", "")
                = IsoCode(GlyphAfter(AmountLabels))
    /\ (parsed.pc = "returned" /\ parsed.parser = "InstrumentAnnotator"
        /\ parsed.free_text_run /\ parsed.result # <<>>)
          => Get(parsed.result, "currency", "")
                = IsoCode(GlyphAfter({"the sum of"}))
    /\ (parsed.pc = "returned" /\ parsed.parser = "EndorserKit"
        /\ "error" \notin DOMAIN parsed.result)
          => Get(parsed.result, "currency", "")
                = IsoCode(GlyphAfter(AmountLabels))

(***************************************************************************)
(* Further claims about the preparer (checked under SpecPrep).             *)
(***************************************************************************)
\* the eight fields of a payload, in the order of the dict literal
PayloadFields ==
    <<"document_type", "bill_number", "customer_name", "total_amount",
      "currency", "endorsement_date", "endorser_id", "endorsement_text">>

\* the value the payload must hold for a field copied from the bill
Defaulted(field) ==
    IF field \in DOMAIN prep.bill THEN prep.bill[field]
    ELSE IF field = "document_type" THEN "Unknown" ELSE "N/A"

\* C17: prepare_endorsement_for_signing never raises for missing data: for
\* every bill record, whatever subset of fields it has, and every
\* annotation text including the empty string, it returns a payload with
\* all eight fields, where a missing document_type is "Unknown" and a
\* missing bill_number, customer_name, total_amount or currency is "N/A";
\* signing that payload succeeds.
C17_PayloadIsComplete ==
    \A i \in DOMAIN prep.calls :
        LET c == prep.calls[i]
        IN  /\ [k \in DOMAIN c.payload |-> c.payload[k][1]] = PayloadFields
            /\ \A f \in {"document_type", "bill_number", "customer_name",
                         "total_amount", "currency"} :
                  DictGet(c.payload, f, None) = Defaulted(f)
            /\ DictGet(c.payload, "endorsement_text", None) = prep.text
            /\ prep.key \in Keys
                  => /\ c.raised = None
                     /\ "signature" \in DictKeys(c.data)

\* C17 witness: the empty bill record with the empty annotation text was
\* prepared and signed
C17_Witness ==
    \E i \in DOMAIN prep.calls :
        /\ prep.bill = <<>> /\ prep.text = <<>> /\ prep.key \in Keys
        /\ prep.calls[i].raised = None
        /\ DictGet(prep.calls[i].payload, "customer_name", None) = "N/A"

\* C18: the endorsement_date of every payload built by
\* prepare_endorsement_for_signing is the server's current date in UTC at
\* the time of the call, whatever the bill record or annotation text
\* contains (a caller-supplied endorsement_date never overrides it).
C18_DateIsUtcDate ==
    \A i \in DOMAIN prep.calls :
        DictGet(prep.calls[i].payload, "endorsement_date", <<>>)
            = strftime(prep.calls[i].utc)

(***************************************************************************)
(* Further claims about endorse_bill (checked under Spec).                 *)
(***************************************************************************)
\* the rules of the configuration
ConfiguredRules == Get(overlay_yaml.config, "sovereign_endorsements", <<>>)

\* the request ended with a success response
Succeeded(r) == Done(r) /\ rq[r].response.status_code = 200

\* the upload directory holds an endorsed output of request r
HasEndorsedOutput(r) ==
    \E p \in DOMAIN disk :
        /\ Len(p.name) >= 2 /\ p.name[1] = "endorsed_"
        /\ p.name[2] = rq[r].filepath.name[1]

\* C19: for a configuration with n endorsement rules, a successful
\* endorse_bill request signs exactly n payloads, one per rule in
\* configuration order, and returns n endorsed files and n endorsement
\* details in that order; with zero rules it signs nothing, writes no
\* output file and returns success with empty lists.
C19_OneSignedOverlayPerRule ==
    \A r \in Requests :
        Succeeded(r) =>
            LET resp == rq[r].response
                n == Len(ConfiguredRules)
            IN  /\ Len(resp.endorsed_files) = n
                /\ Len(resp.endorsements) = n
                /\ \A i \in 1..n :
                      LET d == resp.endorsements[i]
                          text == EndorsementText(ConfiguredRules[i])
                      IN  /\ d.text = text
                          /\ d.signature.b64.over[Len(d.signature.b64.over)]
                               = text
                          /\ resp.endorsed_files[i]
                               = EndorsedOutputPath(
                                     rq[r].filepath.name,
                                     Trigger(ConfiguredRules[i]))
                /\ n = 0 => /\ \A c \in sign_calls : c.req # r
                            /\ ~HasEndorsedOutput(r)

\* C19 witness: under the configuration of three rules a request has
\* succeeded, and so has one under the configuration without rules
C19_Witness ==
    \E r \in Requests :
        /\ Succeeded(r) /\ Len(ConfiguredRules) >= 2
        /\ Len(rq[r].response.endorsements) = Len(ConfiguredRules)

\* C19 second case reached: success with no rule configured
C19_ZeroRulesReached ==
    \E r \in Requests : Succeeded(r) /\ Len(ConfiguredRules) = 0

\* C20: every failure of endorse_bill is reported with the status class of
\* its kind: validation failures of the upload (missing file, missing
\* filename, wrong content type) with 4xx, extraction failures and signing
\* failures with 5xx, and a missing signing key with 5xx.
C20_StatusClassByKind ==
    \A r \in Requests :
        Done(r) =>
            LET resp == rq[r].response
            IN  /\ resp.error_code \in {"FILE_UPLOAD_ERROR",
                                        "VALIDATION_ERROR"}
                      => resp.status_code \in 400..499
                /\ resp.error_code \in {"PROCESSING_ERROR",
                                        "INTERNAL_SERVER_ERROR"}
                      => resp.status_code \in 500..599
                /\ resp.message = "Failed to parse bill data"
                      => resp.status_code \in 500..599

(***************************************************************************)
(* The status codes of a rejected upload.                                  *)
(***************************************************************************)
\* the upload is larger than endorse_bill's limit of 10MB
Oversized(inp) == inp.file /\ inp.size > 10 * MB

\* the upload is within the limit and is not a PDF
WrongFormat(inp) ==
    inp.file /\ ~Oversized(inp) /\ inp.content_type # "application/pdf"

\* C21: an upload to endorse_bill whose size exceeds the 10MB limit is
\* rejected with status 413, and one of an invalid file format with status
\* 400: for every upload validate_file_upload decides so, and every request
\* that ended with the size message carries 413, with the type message 400.
C21_OversizeIs413 ==
    /\ \A inp \in Inputs :
         /\ Oversized(inp) =>
                validate_file_upload(inp, 10).status_code = 413
         /\ WrongFormat(inp) =>
                validate_file_upload(inp, 10).status_code = 400
    /\ \A r \in Requests :
         Done(r) =>
            /\ rq[r].response.message = "File size must be less than"
                  => rq[r].response.status_code = 413
            /\ rq[r].response.message = "File type must be one of"
                  => rq[r].response.status_code = 400

(***************************************************************************)
(* The two handlers that call the compositor, side by side: one request to *)
(* endorse_bill with the three rules configured, and two requests to       *)
(* upload_file_endpoint, which runs process_instrument.                    *)
(***************************************************************************)
InitCompose ==
    /\ attach_call = NoCall
    /\ signer = NoSigner
    /\ environ \in {None, "BAD"}
    /\ key_file = "K1"
    /\ overlay_yaml = [raises |-> FALSE,
                       config |-> [sovereign_endorsements |->
                                     <<RuleSpaced, RulePlain, RuleNoTrigger>>]]
    /\ disk = <<>>
    /\ uuids = 0
    /\ detector = NoDetect
    /\ auth = NoAuth
    /\ dispatch = NoDispatch
    /\ rq = [r \in Requests |-> Locals]
    /\ sign_calls = {}
    /\ up = [u \in Uploaders |-> UpLocals]
    /\ prep = NoPrep
    /\ parsed = NoParse

NextCompose ==
    \/ EndorseBillStart(FirstRequest)
    \/ EndorseBillSave(FirstRequest)
    \/ EndorseBillRule(FirstRequest)
    \/ EndorseBillReturn(FirstRequest)
    \/ \E u \in Uploaders : UploadFileSave(u)
    \/ \E u \in Uploaders : UploadFileProcess(u)

SpecCompose == InitCompose /\ [][NextCompose]_vars

(***************************************************************************)
(* Claims about the files the compositor touches (checked under            *)
(* SpecCompose).                                                           *)
(***************************************************************************)
\* the disk d after attach_endorsement_to_pdf_function(original_pdf_path,
\* .., output_pdf_path, ink, idx) returned or raised: the only file it opens
\* for writing is output_pdf_path, once the pages are merged
DiskAfterAttach(d, original_pdf_path, output_pdf_path, ink, idx) ==
    LET attached == attach_endorsement_to_pdf_function(
                        d[original_pdf_path].pages, ink, idx)
    IN  IF attached.written
        THEN Put(d, output_pdf_path,
                 [text |-> d[original_pdf_path].text,
                  pages |-> attached.out])
        ELSE d

\* one pass of endorse_bill's loop is taken by request r in this step
RuleStep(r) == rq[r].pc = "loop" /\ rq'[r] # rq[r]

\* process_instrument reaches its compositor call in this step of u
StampStep(u) ==
    up[u].pc = "saved" /\ up'[u].pc = "done" /\ up'[u].read_doc # 0

WrittenTextColors(out) ==
    UNION {{out[k].overlays[j].text : j \in 1..Len(out[k].overlays)} :
              k \in DOMAIN out}

\* C23: the overlay is rendered in the requested ink colour: for each
\* ink_color of black, blue and red the endorsement text of a call that
\* returned is drawn in that colour, and the same call made with another
\* ink_color writes a differently coloured overlay.
C23_OverlayInRequestedInk ==
    attach_call.pc = "returned" =>
        /\ WrittenTextColors(attach_call.out) = {attach_call.ink_color}
        /\ \A other \in InkColors \ {attach_call.ink_color} :
              attach_endorsement_to_pdf_function(
                  attach_call.pages, other, attach_call.page_index).out
                # attach_call.out

(***************************************************************************)
(* The contradiction detector, ContradictionDetector/logic/detect.py.  A   *)
(* text is a sequence of characters; the letters come in two cases.  The   *)
(* configured terms are the dict of data/unlawful_terms.json in the order  *)
(* of the file: a sequence of <<term, alternative>> pairs with no term     *)
(* twice.                                                                  *)
(***************************************************************************)
\* the longest text given to the detector
MaxTextLen == 3

Chars == {"a", "A", "b", "B"}

\* str.lower() on one character and on a string
lower_char(c) == IF c = "A" THEN "a" ELSE IF c = "B" THEN "b" ELSE c
lower(s) == [i \in DOMAIN s |-> lower_char(s[i])]

\* Python's "term in text" on strings: term is a substring of text
In(term, text) ==
    \E i \in 0..(Len(text) - Len(term)) :
        SubSeq(text, i + 1, i + Len(term)) = term

\* SelectSeq with a set of kept positions: the elements of s at the
\* positions of keep, in order
RECURSIVE Kept(_, _, _)
Kept(s, keep, i) ==
    IF i > Len(s) THEN <<>>
    ELSE (IF i \in keep THEN <<s[i]>> ELSE <<>>) \o Kept(s, keep, i + 1)

\* detect.py:12-24 without the two lower() calls of line 19
detect_contradictions_case_sensitive(unlawful_terms, text) ==
    LET hits == {i \in DOMAIN unlawful_terms : In(unlawful_terms[i][1], text)}
        found == Kept(unlawful_terms, hits, 1)
    IN  [k \in DOMAIN found |->
            [unlawful_term |-> found[k][1],
             lawful_alternative |-> found[k][2]]]

\* detect.py:12-24, unlawful_terms being what load_unlawful_terms() read:
\* the loop over the items appends an entry for every term whose lower()
\* is in text.lower()
detect_contradictions(unlawful_terms, text) ==
    LET hits == {i \in DOMAIN unlawful_terms :
                    In(lower(unlawful_terms[i][1]), lower(text))}
        found == Kept(unlawful_terms, hits, 1)
    IN  [k \in DOMAIN found |->
            [unlawful_term |-> found[k][1],
             lawful_alternative |-> found[k][2]]]

\* the texts of up to MaxTextLen characters
RECURSIVE StringsUpTo(_)
StringsUpTo(n) ==
    IF n = 0 THEN {<<>>}
    ELSE StringsUpTo(n - 1)
         \cup {Append(s, c) : s \in StringsUpTo(n - 1), c \in Chars}

DetectTexts == StringsUpTo(MaxTextLen)

\* the terms a file may configure, each with its alternative
TermPairs ==
    {<<<<"a">>, "alt_a">>, <<<<"A", "b">>, "alt_Ab">>,
     <<<<"b", "a">>, "alt_ba">>, <<<<"B">>, "alt_B">>}

\* the files: no term, one term, or two different terms in either order
TermConfigs ==
    {<<>>} \cup {<<p>> : p \in TermPairs}
    \cup {<<pq[1], pq[2]>> :
            pq \in {x \in TermPairs \X TermPairs : x[1] # x[2]}}

InitDetect ==
    /\ attach_call = NoCall
    /\ signer = NoSigner
    /\ environ = None
    /\ key_file = None
    /\ overlay_yaml = [raises |-> FALSE, config |-> <<>>]
    /\ disk = <<>>
    /\ uuids = 0
    /\ rq = [r \in Requests |-> Locals]
    /\ sign_calls = {}
    /\ up = [u \in Uploaders |-> UpLocals]
    /\ prep = NoPrep
    /\ parsed = NoParse
    /\ auth = NoAuth
    /\ dispatch = NoDispatch
    /\ \E terms \in TermConfigs, text \in DetectTexts :
          detector = [NoDetect EXCEPT !.pc = "ready", !.terms = terms,
                                      !.text = text]

\* detect.py:12-24
DetectCall ==
    /\ detector.pc = "ready"
    /\ detector' = [detector EXCEPT
                      !.pc = "returned",
                      !.result = detect_contradictions(detector.terms,
                                                       detector.text)]
    /\ UNCHANGED <<attach_call, signer, environ, key_file, overlay_yaml, disk,
                   uuids, rq, up, prep, parsed, auth, dispatch, sign_calls>>

NextDetect == DetectCall

SpecDetect == InitDetect /\ [][NextDetect]_vars

(***************************************************************************)
(* Claims about the detector (checked under SpecDetect).                   *)
(***************************************************************************)
\* two characters are the same letter
SameLetter(c, d) == c = d \/ lower_char(c) = d \/ c = lower_char(d)

\* term occurs in text, compared letter by letter without regard to case
Occurs(term, text) ==
    \E i \in 0..(Len(text) - Len(term)) :
        \A j \in 1..Len(term) : SameLetter(text[i + j], term[j])

\* the positions of the configured terms that occur in the text
Occurring ==
    {i \in DOMAIN detector.terms :
        Occurs(detector.terms[i][1], detector.text)}

\* C24: for every text detect_contradictions returns exactly one entry
\* {unlawful_term, lawful_alternative} for each configured term that
\* occurs in the text compared case-insensitively, in the order of the
\* configured terms, and the empty list when no configured term occurs.
C24_OneEntryPerOccurringTerm ==
    detector.pc = "returned" =>
        /\ Len(detector.result) = Cardinality(Occurring)
        /\ \A i \in Occurring :
              detector.result[Cardinality({j \in Occurring : j <= i})]
                = [unlawful_term |-> detector.terms[i][1],
                   lawful_alternative |-> detector.terms[i][2]]
        /\ Occurring = {} => detector.result = <<>>

\* two terms were found, one of them written in the text in another case
C24_Witness ==
    /\ detector.pc = "returned"
    /\ Len(detector.result) = 2
    /\ \E k \in DOMAIN detector.result :
          ~In(detector.result[k].unlawful_term, detector.text)

(***************************************************************************)
(* The free-text sentence (checked under SpecParse).                       *)
(***************************************************************************)
\* the text of the call holds, from position i to its end, the phrase
\* "Pay to the order of P the sum of <glyph>A on or before D" with a glyph
\* of the four and an amount A that is a number once its commas are gone
PhraseAt(i) ==
    LET t == parsed.text
        n == RunLen(t, i + 4, AmountChars)
    IN  /\ i + 5 <= Len(t)
        /\ t[i] = "Pay to the order of"
        /\ t[i + 1] \notin {"the sum of", "on or before"}
        /\ t[i + 2] = "the sum of"
        /\ t[i + 3] \in Glyphs
        /\ n >= 1
        /\ FloatAccepts(replace(SubSeq(t, i + 4, i + 3 + n), ",", <<>>))
        /\ i + 4 + n < Len(t)
        /\ t[i + 4 + n] = "on or before"

\* the parts P, glyph, A and D of the phrase at i
PhraseParts(i) ==
    LET t == parsed.text
        n == RunLen(t, i + 4, AmountChars)
    IN  [P |-> <<t[i + 1]>>, glyph |-> t[i + 3],
         A |-> SubSeq(t, i + 4, i + 3 + n),
         D |-> SubSeq(t, i + 5 + n, Len(t))]

\* C25: for every text without a structured record identifier that
\* contains the phrase "Pay to the order of P the sum of <glyph>A on or
\* before D", parse_bill returns payee = P, total_amount = the numeric
\* value of A with its commas removed, currency = the ISO code of the
\* glyph, and due_date = D with every "." removed.
C25_FreeTextPhraseIsExtracted ==
    (parsed.parser = "InstrumentAnnotator" /\ parsed.pc # "ready"
     /\ NoBillNumber) =>
        \A i \in DOMAIN parsed.text :
            PhraseAt(i) =>
                LET ph == PhraseParts(i)
                IN  /\ parsed.pc = "returned"
                    /\ DOMAIN parsed.result =
                         {"payee", "total_amount", "currency", "due_date"}
                    /\ parsed.result.payee = ph.P
                    /\ parsed.result.total_amount
                         = float(replace(ph.A, ",", <<>>))
                    /\ parsed.result.currency = IsoCode(ph.glyph)
                    /\ parsed.result.due_date = replace(ph.D, ".", <<>>)

\* the same statement for the texts that begin with the phrase
C25_PhraseAtStartIsExtracted ==
    (parsed.parser = "InstrumentAnnotator" /\ parsed.pc # "ready"
     /\ NoBillNumber /\ PhraseAt(1)) =>
        LET ph == PhraseParts(1)
        IN  /\ parsed.pc = "returned"
            /\ parsed.result.payee = ph.P
            /\ parsed.result.total_amount = float(replace(ph.A, ",", <<>>))
            /\ parsed.result.currency = IsoCode(ph.glyph)
            /\ parsed.result.due_date = replace(ph.D, ".", <<>>)

(***************************************************************************)
(* Parsing comes before signing (checked under Spec).                      *)
(***************************************************************************)
\* request r holds the record get_bill_data_from_source returned for its
\* saved upload, and the record has a bill number and no error
ParsedWithBillNumber(r) ==
    /\ rq[r].filepath \in DOMAIN disk
    /\ rq[r].bill_data = get_bill_data_from_source(rq[r].filepath.name,
                                                   disk[rq[r].filepath])
    /\ "error" \notin DOMAIN rq[r].bill_data
    /\ Truthy(Get(rq[r].bill_data, "bill_number", None))

\* in this step sign_endorsement is called for r, or an endorsed PDF of r
\* is written
SignsOrWrites(r) ==
    \/ RuleStep(r)
    \/ \E c \in sign_calls' \ sign_calls : c.req = r
    \/ \E p \in DOMAIN disk' :
          /\ Len(p.name) >= 2 /\ p.name[1] = "endorsed_"
          /\ rq[r].filename # <<>> /\ p.name[2] = rq[r].filename[1]
          /\ (p \in DOMAIN disk => disk'[p] # disk[p])

\* in this step the parse of r's upload comes back with an error
ParseFails(r) ==
    /\ rq[r].pc = "read" /\ rq'[r] # rq[r]
    /\ "error" \in DOMAIN get_bill_data_from_source(
                             rq[r].filepath.name,
                             [text |-> rq[r].input.text,
                              pages |-> Doc(r, rq[r].input.pages)])

\* C26: in endorse_bill nothing is signed and no endorsed PDF is written
\* unless extraction first returned a record with a non-empty bill_number:
\* every sign_endorsement call and every output write is made by a request
\* that holds such a record from its parse, and a parse result carrying an
\* error ends the request in an error, with nothing signed for it then or
\* later.
C26_ParseBeforeSigning ==
    /\ [][\A r \in Requests :
            /\ SignsOrWrites(r) => ParsedWithBillNumber(r)
            /\ ParseFails(r) =>
                  /\ rq'[r].pc = "done"
                  /\ rq'[r].response.status_code >= 400
                  /\ sign_calls' = sign_calls
                  /\ rq'[r].response.endorsed_files = <<>>
      ]_vars
    /\ [](\A r \in Requests :
            (Done(r) /\ rq[r].response.message = "Failed to parse bill data")
                => /\ \A c \in sign_calls : c.req # r
                   /\ rq[r].endorsed_files = <<>>)

\* one request ended at a failed parse with nothing signed, another has
\* signed and written its endorsed files after a parse with a bill number
C26_Witness ==
    \E r \in Requests, q \in Requests :
        /\ Done(r) /\ rq[r].response.message = "Failed to parse bill data"
        /\ rq[q].pc = "return"
        /\ rq[q].endorsed_files # <<>>
        /\ \E c \in sign_calls : c.req = q
        /\ ParsedWithBillNumber(q)

(***************************************************************************)
(* The endorsed files of one request (checked under Spec).                 *)
(***************************************************************************)
\* the endorsed PDFs on the disk that carry the upload name of request r
EndorsedOnDisk(r) ==
    {p \in DOMAIN disk :
        /\ Len(p.name) >= 2 /\ p.name[1] = "endorsed_"
        /\ rq[r].filename # <<>> /\ p.name[2] = rq[r].filename[1]}

\* C27: within one endorse_bill request the endorsed output paths of
\* different rules are pairwise distinct, so the endorsed file of one rule
\* is never overwritten by a later rule: while the request runs, the disk
\* holds one endorsed file for each path listed in endorsed_files (also
\* for two rules whose triggers differ only in spaces).
C27_OutputPathsDistinct ==
    \A r \in Requests :
        rq[r].pc \in {"loop", "return"} =>
            /\ \A i \in DOMAIN rq[r].endorsed_files :
                 \A j \in DOMAIN rq[r].endorsed_files :
                    i # j => rq[r].endorsed_files[i] # rq[r].endorsed_files[j]
            /\ Cardinality(EndorsedOnDisk(r)) = Len(rq[r].endorsed_files)

(***************************************************************************)
(* One record or the other (checked under SpecParse).                      *)
(***************************************************************************)
\* the fields the free-text patterns find in the text of the call
FreeTextFields ==
    LET t == parsed.text
    IN  (IF \E i \in DOMAIN t : PayeeAt(t, i) THEN {"payee"} ELSE {})
        \cup (IF \E i \in DOMAIN t : AmountAt(t, i, {"the sum of"})
              THEN {"total_amount"} ELSE {})
        \cup (IF \E i \in DOMAIN t : t[i] = "the sum of"
                                     /\ GlyphLen(t, i + 1) = 1
              THEN {"currency"} ELSE {})
        \cup (IF \E i \in DOMAIN t : t[i] = "on or before"
              THEN {"due_date"} ELSE {})

\* C28: BillParser.parse_bill (InstrumentAnnotator) returns either exactly
\* the structured record, when it has a bill_number, or exactly the
\* free-text record, never a merge: with no bill_number every field of the
\* structured pass (total_amount, currency, the customer_name placeholder)
\* is absent from the result unless the free-text pass produced it, and
\* the result is the empty record when the free-text pass matches nothing.
C28_NeverAMerge ==
    (parsed.parser = "InstrumentAnnotator" /\ parsed.pc = "returned") =>
        IF NoBillNumber
        THEN /\ parsed.result = parse_free_text_bill(parsed.text).data
             /\ DOMAIN parsed.result = FreeTextFields
             /\ "customer_name" \notin DOMAIN parsed.result
             /\ FreeTextFields = {} => DOMAIN parsed.result = {}
        ELSE parsed.result = parse_structured_bill(parsed.text)

\* a text without a bill number from which the structured pass took an
\* amount and the placeholder name and the free-text pass a payee: the
\* result has the payee and not the name
C28_Witness ==
    /\ parsed.parser = "InstrumentAnnotator"
    /\ parsed.pc = "returned"
    /\ NoBillNumber
    /\ \E i \in DOMAIN parsed.text : AmountAt(parsed.text, i, AmountLabels)
    /\ "customer_name" \in DOMAIN parse_structured_bill(parsed.text)
    /\ "payee" \in DOMAIN parsed.result
    /\ "customer_name" \notin DOMAIN parsed.result

(***************************************************************************)
(* User storage, backend/auth.py.  users.json holds a dict from email to   *)
(* the user's record; the model keeps of a record its email and its        *)
(* last_login.  create_user and authenticate_user read the whole file with *)
(* load_users and write the whole dict back with save_users, with no lock  *)
(* between the two.  A call is made by a caller; callers are the server    *)
(* processes or threads that share the file, so the steps of two calls     *)
(* may alternate at the file accesses.  (Inside one event loop the calls   *)
(* of register_user follow one another: create_user has no await.)         *)
(***************************************************************************)
\* the number of callers
MaxCallers == 2

Callers == 1..MaxCallers

Emails == {"ann", "bob", "old"}

\* auth.py:87-95 the record of a new user
user_dict(email) == [email |-> email, last_login |-> None]

\* auth.py:61-69: the dict of the file, {} when there is no file
load_users(file) == file

\* auth.py:71-77: the file after json.dump(users, f)
save_users(users) == users

\* the files at the start: no file, or one stored user
UserFiles == {<<>>, [e \in {"old"} |-> user_dict(e)]}

NoCaller == [pc |-> "new", call |-> "", email |-> "", users |-> <<>>,
             result |-> None]

InitAuth ==
    /\ attach_call = NoCall
    /\ signer = NoSigner
    /\ environ = None
    /\ key_file = None
    /\ overlay_yaml = [raises |-> FALSE, config |-> <<>>]
    /\ disk = <<>>
    /\ uuids = 0
    /\ rq = [r \in Requests |-> Locals]
    /\ sign_calls = {}
    /\ up = [u \in Uploaders |-> UpLocals]
    /\ prep = NoPrep
    /\ parsed = NoParse
    /\ detector = NoDetect
    /\ dispatch = NoDispatch
    /\ \E file \in UserFiles :
          auth = [file |-> file, stored |-> DOMAIN file,
                  callers |-> [p \in Callers |-> NoCaller]]

\* the other variables of the module
AuthUnchanged ==
    UNCHANGED <<attach_call, signer, environ, key_file, overlay_yaml, disk,
                uuids, rq, up, prep, parsed, detector, dispatch, sign_calls>>

\* auth.py:79-96: load_users, the check for the email, the new record put
\* into the loaded dict
CreateUserLoad(p) ==
    /\ auth.callers[p].pc = "new"
    /\ \E email \in Emails :
        LET users == load_users(auth.file)
            c == [auth.callers[p] EXCEPT !.call = "create_user",
                                        !.email = email]
        IN  IF email \in DOMAIN users
            THEN auth' = [auth EXCEPT !.callers[p] =
                             [c EXCEPT !.pc = "done", !.result = None]]
            ELSE auth' = [auth EXCEPT !.callers[p] =
                             [c EXCEPT !.pc = "loaded",
                                !.users = Put(users, email,
                                              user_dict(email))]]
    /\ AuthUnchanged

\* auth.py:97-99: save_users(users), and the User is returned
CreateUserSave(p) ==
    /\ auth.callers[p].pc = "loaded"
    /\ auth.callers[p].call = "create_user"
    /\ auth' = [auth EXCEPT !.file = save_users(auth.callers[p].users),
                            !.callers[p].pc = "done",
                            !.callers[p].users = <<>>,
                            !.callers[p].result = "User"]
    /\ AuthUnchanged

\* auth.py:104-118: load_users, the checks (the password being right),
\* last_login set in the loaded dict
AuthenticateUserLoad(p) ==
    /\ auth.callers[p].pc = "new"
    /\ \E email \in Emails :
        LET users == load_users(auth.file)
            c == [auth.callers[p] EXCEPT !.call = "authenticate_user",
                                        !.email = email]
        IN  IF email \notin DOMAIN users
            THEN auth' = [auth EXCEPT !.callers[p] =
                             [c EXCEPT !.pc = "done", !.result = None]]
            ELSE auth' = [auth EXCEPT !.callers[p] =
                             [c EXCEPT !.pc = "loaded",
                                !.users = [users EXCEPT
                                             ![email].last_login = "now"]]]
    /\ AuthUnchanged

\* auth.py:119-121: save_users(users), and the User is returned
AuthenticateUserSave(p) ==
    /\ auth.callers[p].pc = "loaded"
    /\ auth.callers[p].call = "authenticate_user"
    /\ auth' = [auth EXCEPT !.file = save_users(auth.callers[p].users),
                            !.callers[p].pc = "done",
                            !.callers[p].users = <<>>,
                            !.callers[p].result = "User"]
    /\ AuthUnchanged

NextAuth ==
    \/ \E p \in Callers : CreateUserLoad(p)
    \/ \E p \in Callers : CreateUserSave(p)
    \/ \E p \in Callers : AuthenticateUserLoad(p)
    \/ \E p \in Callers : AuthenticateUserSave(p)

SpecAuth == InitAuth /\ [][NextAuth]_vars

(***************************************************************************)
(* Claims about user storage (checked under SpecAuth).                     *)
(***************************************************************************)
\* the emails create_user has returned a User for
Registered ==
    {auth.callers[p].email :
        p \in {q \in Callers : /\ auth.callers[q].call = "create_user"
                               /\ auth.callers[q].result = "User"}}

\* C29: registration loses no account under concurrency: when create_user
\* calls for different, previously unregistered emails interleave (each
\* doing load_users, then save_users), every user a call has returned is
\* in the stored file afterwards, and no stored user ever disappears.
C29_NoAccountLost ==
    /\ [](Registered \subseteq DOMAIN auth.file)
    /\ [](auth.stored \subseteq DOMAIN auth.file)
    /\ [][DOMAIN auth.file \subseteq DOMAIN auth'.file]_vars

(***************************************************************************)
(* The dispatch registry, DispatchDaemon/log_dispatch.py and               *)
(* track_response.py.  dispatch_registry.json is a sequence of characters: *)
(* the brackets, braces, commas and keys of the encoding are one           *)
(* character each in the model, a packet id is one, the fields method,     *)
(* recipient, location and timestamp together are one, and a status is     *)
(* written character by character, so that the length of the file follows *)
(* the length of the status.                                               *)
(***************************************************************************)
\* the most entries a registry gets, and the most calls made
MaxEntries == 2
MaxDispatchCalls == 4

PacketIds == {"P1", "P2"}

Dispatched == <<"D", "i", "s", "p", "a", "t", "c", "h", "e", "d">>

\* the statuses given to update_status: one shorter than "Dispatched", one
\* longer
NewStatuses ==
    {<<"S", "e", "n", "t">>,
     <<"A", "c", "k", "n", "o", "w", "l", "e", "d", "g", "e", "d">>}

Statuses == {Dispatched} \cup NewStatuses

Entries == [packet_id : PacketIds, status : Statuses]

\* the registries of up to n entries
RECURSIVE RegistriesUpTo(_)
RegistriesUpTo(n) ==
    IF n = 0 THEN {<<>>}
    ELSE RegistriesUpTo(n - 1)
         \cup {Append(reg, e) : reg \in RegistriesUpTo(n - 1), e \in Entries}

Registries == RegistriesUpTo(MaxEntries)

\* json.dump of one entry ("q" is the quote character around the status)
DumpEntry(e) ==
    <<"{", "packet_id", e.packet_id, "fields", "status", "q">>
    \o e.status \o <<"q", "}">>

\* json.dump of the entries from the k-th on, with "," between them
RECURSIVE DumpEntries(_, _)
DumpEntries(registry, k) ==
    IF k > Len(registry) THEN <<>>
    ELSE DumpEntry(registry[k])
         \o (IF k < Len(registry) THEN <<",">> ELSE <<>>)
         \o DumpEntries(registry, k + 1)

\* json.dump(registry, f, indent=2): the characters written
json_dump(registry) == <<"[">> \o DumpEntries(registry, 1) \o <<"]">>

\* json.load(f): the registry whose encoding the file is, or a
\* JSONDecodeError when the file is no encoding (characters after the
\* closing bracket are "Extra data")
json_load(file) ==
    IF \E reg \in Registries : json_dump(reg) = file
    THEN [raised |-> None,
          registry |-> CHOOSE reg \in Registries : json_dump(reg) = file]
    ELSE [raised |-> "JSONDecodeError", registry |-> <<>>]

\* a file opened with "r+", f.seek(0), then written: the characters
\* written replace the first ones of the file, the others stay (neither
\* function calls f.truncate())
WriteFromStart(file, written) ==
    written \o SubSeq(file, Len(written) + 1, Len(file))

\* there is no file
NoFile == <<"ENOENT">>

\* track_response.py:6-9: the first entry with that packet_id gets the
\* status
RECURSIVE SetFirstStatus(_, _, _, _)
SetFirstStatus(registry, packet_id, new_status, k) ==
    IF k > Len(registry) THEN registry
    ELSE IF registry[k].packet_id = packet_id
    THEN [registry EXCEPT ![k].status = new_status]
    ELSE SetFirstStatus(registry, packet_id, new_status, k + 1)

\* track_response.py:3-12: what the call raised (None when it returned)
\* and the file it left
update_status(file, packet_id, new_status) ==
    IF file = NoFile
    THEN [raised |-> "FileNotFoundError", file |-> file]
    ELSE LET loaded == json_load(file)
             registry == SetFirstStatus(loaded.registry, packet_id,
                                        new_status, 1)
         IN  IF loaded.raised # None
             THEN [raised |-> loaded.raised, file |-> file]
             ELSE [raised |-> None,
                   file |-> WriteFromStart(file, json_dump(registry))]

\* log_dispatch.py:4-22
log_dispatch(file, packet_id) ==
    LET entry == [packet_id |-> packet_id, status |-> Dispatched]
        loaded == json_load(file)
    IN  IF file = NoFile
        THEN [raised |-> None, file |-> json_dump(<<entry>>)]
        ELSE IF loaded.raised # None
        THEN [raised |-> loaded.raised, file |-> file]
        ELSE [raised |-> None,
              file |-> WriteFromStart(
                           file, json_dump(Append(loaded.registry, entry)))]

NoDispatchCall ==
    [op |-> "", packet_id |-> "", new_status |-> <<>>, before |-> NoFile,
     raised |-> None]

InitDispatch ==
    /\ attach_call = NoCall
    /\ signer = NoSigner
    /\ environ = None
    /\ key_file = None
    /\ overlay_yaml = [raises |-> FALSE, config |-> <<>>]
    /\ disk = <<>>
    /\ uuids = 0
    /\ rq = [r \in Requests |-> Locals]
    /\ sign_calls = {}
    /\ up = [u \in Uploaders |-> UpLocals]
    /\ prep = NoPrep
    /\ parsed = NoParse
    /\ detector = NoDetect
    /\ auth = NoAuth
    /\ \E file \in {NoFile, json_dump(<<>>)} :
          dispatch = [pc |-> "idle", file |-> file, calls |-> 0,
                      last |-> NoDispatchCall]

\* the other variables of the module
DispatchUnchanged ==
    UNCHANGED <<attach_call, signer, environ, key_file, overlay_yaml, disk,
                uuids, rq, up, prep, parsed, detector, auth, sign_calls>>

\* the entries the file holds, 0 when it cannot be read
EntriesInFile ==
    IF dispatch.file = NoFile THEN 0
    ELSE Len(json_load(dispatch.file).registry)

\* one call of log_dispatch
LogDispatch ==
    /\ dispatch.calls < MaxDispatchCalls
    /\ EntriesInFile < MaxEntries
    /\ \E packet_id \in PacketIds :
        LET res == log_dispatch(dispatch.file, packet_id)
        IN  dispatch' = [dispatch EXCEPT
                           !.file = res.file, !.calls = @ + 1,
                           !.last = [op |-> "log_dispatch",
                                     packet_id |-> packet_id,
                                     new_status |-> <<>>,
                                     before |-> dispatch.file,
                                     raised |-> res.raised]]
    /\ DispatchUnchanged

\* one call of update_status
UpdateStatus ==
    /\ dispatch.calls < MaxDispatchCalls
    /\ \E packet_id \in PacketIds, new_status \in NewStatuses :
        LET res == update_status(dispatch.file, packet_id, new_status)
        IN  dispatch' = [dispatch EXCEPT
                           !.file = res.file, !.calls = @ + 1,
                           !.last = [op |-> "update_status",
                                     packet_id |-> packet_id,
                                     new_status |-> new_status,
                                     before |-> dispatch.file,
                                     raised |-> res.raised]]
    /\ DispatchUnchanged

NextDispatch == LogDispatch \/ UpdateStatus

SpecDispatch == InitDispatch /\ [][NextDispatch]_vars

(***************************************************************************)
(* Claims about the registry file (checked under SpecDispatch).            *)
(***************************************************************************)
\* the registry with the status of the first entry of that packet_id set
\* and every other entry as it was
WithStatus(registry, packet_id, new_status) ==
    [k \in DOMAIN registry |->
        IF /\ registry[k].packet_id = packet_id
           /\ \A j \in 1..(k - 1) : registry[j].packet_id # packet_id
        THEN [packet_id |-> packet_id, status |-> new_status]
        ELSE registry[k]]

\* C30: after update_status(packet_id, new_status) the registry file is
\* exactly the JSON encoding of the previous registry with the status of
\* the first entry of that packet_id set to new_status and every other
\* entry unchanged, for every new_status, also one shorter than the status
\* it replaces; and after any sequence of log_dispatch and update_status
\* calls the file can still be parsed as a registry.
C30_RegistryFileStaysJson ==
    /\ (dispatch.last.op = "update_status" /\ dispatch.last.raised = None)
          => dispatch.file
               = json_dump(WithStatus(
                               json_load(dispatch.last.before).registry,
                               dispatch.last.packet_id,
                               dispatch.last.new_status))
    /\ dispatch.file # NoFile => json_load(dispatch.file).raised = None

\* the same statement for a new_status at least as long as the old one
C30_LongerStatusStaysJson ==
    (/\ dispatch.last.op = "update_status" /\ dispatch.last.raised = None
     /\ Len(json_dump(WithStatus(json_load(dispatch.last.before).registry,
                                 dispatch.last.packet_id,
                                 dispatch.last.new_status)))
           >= Len(dispatch.last.before))
        => /\ dispatch.file
                = json_dump(WithStatus(
                                json_load(dispatch.last.before).registry,
                                dispatch.last.packet_id,
                                dispatch.last.new_status))
           /\ json_load(dispatch.file).raised = None

=============================================================================
